---- MODULE Spec2Model ----
(***************************************************************************)
(* PoseCare frame pipeline: the rep counter and the per-exercise           *)
(* hysteresis machines (posecare_core.py), driven by the host frame loop   *)
(* (posecare_main.py: one frame, then one key command, per iteration), and *)
(* the keypoint stabilizer (EMAStabilizer).                                *)
(*                                                                         *)
(* Angles are whole degrees.  An optional value (Python None or a float)   *)
(* is a sequence of length 0 or 1.                                         *)
(***************************************************************************)
EXTENDS Integers, Sequences, FiniteSets, TLC

VARIABLES
    rc,         \* the RepCounter: [exercise, reps, state, dwell, form_pct]
    pc,         \* position in the host loop: "frame", "key" or "done"
    kps,        \* what the last frame handed to the exercise logic
    prevState,  \* history: the phase before the last frame ("" after a reset)
    fresh,      \* history: no frame with a valid measurement since creation/reset
    pat,        \* history: progress of the squat pattern up+ down{3,} up{3,}
    dip,        \* history: progress of a short squat dip
    dipReps,    \* history: rep count when the dip began
    key,        \* the key command the loop handled last ("" once a frame follows it)
    streamWin,  \* history: entering-conditions held on the last 3 frames of the stream
    validWin,   \* history: the same over the last 3 frames with a valid measurement
    stab,       \* EMAStabilizer.state: None, or Some(the 17 stored landmarks)
    calls,      \* history: the update calls made so far, [kps, conf, ret, raised]
    lead,       \* history: the run of leaving-condition frames begun at dwell 0
    tally,      \* history: the measured frames since the latest rep or reset
    prevbb,     \* main's prev_bb: the box handed to the selector on the next frame
    frames,     \* the frames the detector pipeline has taken
    last,       \* history: what the selector chose on the latest pipeline frame
    lastBox,    \* history: the box of the latest frame on which a subject was chosen
    fn          \* a call of one of the pure functions: its arguments and result

vars == <<rc, pc, kps, key, prevState, fresh, pat, dip, dipReps, streamWin, validWin,
          lead, tally, prevbb, frames, last, lastBox, stab, calls, fn>>

(* ------------------------------ bounds -------------------------------- *)

\* The host loop stops taking frames once the counter shows this many reps.
MaxReps == 2

\* Stabilizer updates made in one run.
MaxUpdates == 2

(* ----------------------------- constants ------------------------------ *)

SQUAT_DOWN_MAX == 120
SQUAT_UP_MIN == 165
STS_SIT_MAX == 120
STS_STAND_MIN == 165
LR_UP_MAX == 120
LR_DOWN_MIN == 165

\* confidences and smoothing factors are in hundredths, distances in pixels
KEYPT_MIN_CONF == 35
NUM_KP == 17
alpha_fast == 45
alpha_slow == 15
FAST_DIST == 6

MIN_DWELL_short == 3 - 1
MIN_DWELL_long == 3 + 1
MIN_DWELL == 3

None == <<>>
Some(v) == <<v>>

\* Angles a frame may measure: below, on and above each threshold.
AngleVals == {100, 120, 165, 170}
OptAngle == {None} \cup {Some(a) : a \in AngleVals}

\* The stabilizer gave no landmark array: the exercise logic is not called.
NoPose == [Lk |-> None, Rk |-> None, Lh |-> None, Rh |-> None, pose |-> FALSE]

Exercises == {"squat", "sts", "leg_raise"}

\* The angles the active exercise reads from the landmark array; the angles
\* it never reads are left absent.
PoseInputs(ex) ==
    IF ex = "leg_raise"
    THEN {[Lk |-> None, Rk |-> None, Lh |-> l, Rh |-> r, pose |-> TRUE] :
              l \in OptAngle, r \in OptAngle}
    ELSE {[Lk |-> l, Rk |-> r, Lh |-> None, Rh |-> None, pose |-> TRUE] :
              l \in OptAngle, r \in OptAngle}

(* --------------------------- angle access ----------------------------- *)

knee_angles(k) == <<k.Lk, k.Rk>>

hip_angle_side(k, side) == IF side = "l" THEN k.Lh ELSE k.Rh

(* ---------------------------- rep counter ----------------------------- *)

RepCounter(ex) ==
    [exercise |-> ex, reps |-> 0, state |-> "", dwell |-> 0, form_pct |-> 0]

reset_keeps_reps(c, ex) ==
    [c EXCEPT !.exercise = IF ex # None THEN ex[1] ELSE @,
              !.state = "", !.dwell = 0, !.form_pct = 0]

reset_keeps_phase(c, ex) ==
    [c EXCEPT !.exercise = IF ex # None THEN ex[1] ELSE @,
              !.reps = 0, !.form_pct = 0]

reset(c, ex) ==
    [c EXCEPT !.exercise = IF ex # None THEN ex[1] ELSE @,
              !.reps = 0, !.state = "", !.dwell = 0, !.form_pct = 0]

(* ---------------------------- form quality ---------------------------- *)

Min(a, b) == IF a < b THEN a ELSE b
Max(a, b) == IF a > b THEN a ELSE b

\* Python round(): n/d to the nearest integer, a tie to the even one (n >= 0).
round(n, d) ==
    LET q == n \div d
        r == n % d
    IN  IF 2 * r < d THEN q
        ELSE IF 2 * r > d THEN q + 1
        ELSE IF q % 2 = 0 THEN q ELSE q + 1

\* _clamp01 without the upper end
clamp01_no_ceiling(n, d) == Max(0, n)

\* _clamp01 without the lower end
clamp01_no_floor(n, d) == Min(d, n)

\* _clamp01(n/d) as the numerator over the same denominator d > 0.
clamp01(n, d) == Max(0, Min(d, n))

form_quality_squat(k) ==
    LET Lk == knee_angles(k)[1]
        Rk == knee_angles(k)[2]
    IN  IF Lk = None \/ Rk = None THEN None
        ELSE Some(round(50 * (clamp01(180 - Lk[1], 90) + clamp01(180 - Rk[1], 90)), 90))

\* the sum of one or two scores
SumScores(vals) == IF Len(vals) = 1 THEN vals[1] ELSE vals[1] + vals[2]

\* The scores of form_quality_sts are doubles.  ext_score(a) for a knee k
\* degrees above 120 is fl(k / 60) = m / 2^(52 + b), with m the nearest whole
\* number to k * 2^(52 + b) / 60 and b the binade of k / 60:
\* 2^-b <= k / 60 < 2^(1 - b).
binade(K) == CHOOSE b \in 0..6 : 60 <= K * 2^b /\ K * 2^b < 120

\* 2^t mod 60 for t >= 2: 4, 8, 16, 32 by turns
pow2mod60(t) == 2^(2 + ((t - 2) % 4))

\* 60 * m - k * 2^(52 + b): the error of fl(k / 60) in units of
\* 1 / (60 * 2^(52 + b)); 0 / 60 and 60 / 60 are exact
ext_err(k) ==
    IF k = 0 \/ k = 60 THEN 0
    ELSE LET rem == (k * pow2mod60(52 + binade(k))) % 60
         IN  IF rem < 30 THEN -rem ELSE 60 - rem

\* m mod 128: 15 * m = k * 2^(50 + b) + ext_err(k) / 4, and 111 * 15 = 1 mod 128
ext_low(k) == (111 * (ext_err(k) \div 4)) % 128

\* int(round(100 * (0.5 * (fl(k1 / 60) + fl(k2 / 60))))).  The quotient
\* 50 * (k1 + k2) / 60 is within 2^-40 of the double that is rounded, so that
\* off a tie the result is the nearest whole number to the quotient.  On a
\* tie X.5 the double sum S = fl(fl(k1 / 60) + fl(k2 / 60)) decides: it
\* differs from (k1 + k2) / 60 by N / (60 * 2^(52 + mb)), and 50 * S is
\* rounded to the double X.5 when it is within half a unit in the last place
\* of it (then round() takes the even neighbour), otherwise to a double on the
\* side of N.
sts_quality(k1, k2) ==
    LET K == k1 + k2
        X == (50 * K) \div 60
        rem == (50 * K) % 60
        b1 == IF k1 = 0 THEN binade(Max(1, k2)) ELSE binade(k1)
        b2 == IF k2 = 0 THEN binade(Max(1, k1)) ELSE binade(k2)
        mb == Max(b1, b2)
        \* the exact sum of the two doubles: M is its mantissa mod 128 in
        \* units of 2^-(52 + mb), D its error
        D == ext_err(k1) * 2^(mb - b1) + ext_err(k2) * 2^(mb - b2)
        M == ext_low(k1) * 2^(mb - b1) + ext_low(k2) * 2^(mb - b2)
        \* binade of the sum; at K / 60 = 1/4 the sum may lie below it
        bS == IF K = 15 /\ D < 0 THEN binade(K) + 1 ELSE binade(K)
        g == mb - bS
        lo == M % 2^g
        \* rounding the sum to 53 bits drops g bits, ties to even
        sigma == IF g = 0 THEN 0
                 ELSE IF 2 * lo < 2^g THEN -lo
                 ELSE IF 2 * lo > 2^g THEN 2^g - lo
                 ELSE IF (M \div 2^g) % 2 = 0 THEN -lo ELSE lo
        N == D + 60 * sigma
        c == CHOOSE e \in 0..6 : 2^e <= X /\ X < 2^(e + 1)
        absN == IF N < 0 THEN -N ELSE N
    IN  IF 2 * rem # 60 THEN round(50 * K, 60)
        ELSE IF 5 * absN <= 3 * 2^(mb + c) THEN (IF X % 2 = 0 THEN X ELSE X + 1)
        ELSE IF N > 0 THEN X + 1 ELSE X

form_quality_sts(k) ==
    LET Lk == knee_angles(k)[1]
        Rk == knee_angles(k)[2]
    IN  IF Lk = None \/ Rk = None THEN None
        ELSE Some(sts_quality(clamp01(Lk[1] - 120, 60), clamp01(Rk[1] - 120, 60)))

\* form_quality_legraise that halves the sum of the scores it has
form_quality_legraise_halves(k) ==
    LET Lh == hip_angle_side(k, "l")
        Rh == hip_angle_side(k, "r")
        vals == (IF Lh # None THEN <<clamp01(180 - Lh[1], 90)>> ELSE <<>>)
                \o (IF Rh # None THEN <<clamp01(180 - Rh[1], 90)>> ELSE <<>>)
    IN  IF Lh = None /\ Rh = None THEN None
        ELSE Some(round(100 * SumScores(vals), 2 * 90))

form_quality_legraise(k) ==
    LET Lh == hip_angle_side(k, "l")
        Rh == hip_angle_side(k, "r")
        vals == (IF Lh # None THEN <<clamp01(180 - Lh[1], 90)>> ELSE <<>>)
                \o (IF Rh # None THEN <<clamp01(180 - Rh[1], 90)>> ELSE <<>>)
    IN  IF Lh = None /\ Rh = None THEN None
        ELSE IF Len(vals) = 1 THEN Some(round(100 * vals[1], 90))
        ELSE Some(round(100 * (vals[1] + vals[2]), 2 * 90))

\* "if q is not None: rc.form_pct = q"
set_form(c, q) == IF q # None THEN [c EXCEPT !.form_pct = q[1]] ELSE c

(* ------------------------- exercise machines -------------------------- *)

\* squat_phase with the rep count cleared on the way down
squat_phase_clears(c, down, up) ==
    IF c.state = "" THEN [c EXCEPT !.state = "up", !.dwell = 0]
    ELSE IF c.state = "up" THEN
        LET d == IF down THEN c.dwell + 1 ELSE 0
        IN  IF down /\ d >= MIN_DWELL
            THEN [c EXCEPT !.reps = 0, !.state = "down", !.dwell = 0]
            ELSE [c EXCEPT !.dwell = d]
    ELSE IF c.state = "down" THEN
        LET d == IF up THEN c.dwell + 1 ELSE 0
        IN  IF up /\ d >= MIN_DWELL
            THEN [c EXCEPT !.reps = @ + 1, !.state = "up", !.dwell = 0]
            ELSE [c EXCEPT !.dwell = d]
    ELSE c

\* squat_phase that starts in phase "down"
squat_phase_starts_down(c, down, up) ==
    IF c.state = "" THEN [c EXCEPT !.state = "down", !.dwell = 0]
    ELSE IF c.state = "up" THEN
        LET d == IF down THEN c.dwell + 1 ELSE 0
        IN  IF down /\ d >= MIN_DWELL
            THEN [c EXCEPT !.state = "down", !.dwell = 0]
            ELSE [c EXCEPT !.dwell = d]
    ELSE IF c.state = "down" THEN
        LET d == IF up THEN c.dwell + 1 ELSE 0
        IN  IF up /\ d >= MIN_DWELL
            THEN [c EXCEPT !.reps = @ + 1, !.state = "up", !.dwell = 0]
            ELSE [c EXCEPT !.dwell = d]
    ELSE c

\* if/elif chain of logic_squat on the phase, given the frame's conditions
squat_phase(c, down, up) ==
    IF c.state = "" THEN [c EXCEPT !.state = "up", !.dwell = 0]
    ELSE IF c.state = "up" THEN
        LET d == IF down THEN c.dwell + 1 ELSE 0
        IN  IF down /\ d >= MIN_DWELL
            THEN [c EXCEPT !.state = "down", !.dwell = 0]
            ELSE [c EXCEPT !.dwell = d]
    ELSE IF c.state = "down" THEN
        LET d == IF up THEN c.dwell + 1 ELSE 0
        IN  IF up /\ d >= MIN_DWELL
            THEN [c EXCEPT !.reps = @ + 1, !.state = "up", !.dwell = 0]
            ELSE [c EXCEPT !.dwell = d]
    ELSE c

\* sts_phase with a rep counted on stand -> sit as well
sts_phase_counts_both(c, sit, stand) ==
    IF c.state = "" THEN [c EXCEPT !.state = "sit", !.dwell = 0]
    ELSE IF c.state = "sit" THEN
        LET d == IF stand THEN c.dwell + 1 ELSE 0
        IN  IF stand /\ d >= MIN_DWELL
            THEN [c EXCEPT !.reps = @ + 1, !.state = "stand", !.dwell = 0]
            ELSE [c EXCEPT !.dwell = d]
    ELSE IF c.state = "stand" THEN
        LET d == IF sit THEN c.dwell + 1 ELSE 0
        IN  IF sit /\ d >= MIN_DWELL
            THEN [c EXCEPT !.reps = @ + 1, !.state = "sit", !.dwell = 0]
            ELSE [c EXCEPT !.dwell = d]
    ELSE c

\* sts_phase that keeps the dwell count over a frame without the condition
sts_phase_keeps_dwell(c, sit, stand) ==
    IF c.state = "" THEN [c EXCEPT !.state = "sit", !.dwell = 0]
    ELSE IF c.state = "sit" THEN
        LET d == IF stand THEN c.dwell + 1 ELSE c.dwell
        IN  IF stand /\ d >= MIN_DWELL
            THEN [c EXCEPT !.reps = @ + 1, !.state = "stand", !.dwell = 0]
            ELSE [c EXCEPT !.dwell = d]
    ELSE IF c.state = "stand" THEN
        LET d == IF sit THEN c.dwell + 1 ELSE c.dwell
        IN  IF sit /\ d >= MIN_DWELL
            THEN [c EXCEPT !.state = "sit", !.dwell = 0]
            ELSE [c EXCEPT !.dwell = d]
    ELSE c

sts_phase(c, sit, stand) ==
    IF c.state = "" THEN [c EXCEPT !.state = "sit", !.dwell = 0]
    ELSE IF c.state = "sit" THEN
        LET d == IF stand THEN c.dwell + 1 ELSE 0
        IN  IF stand /\ d >= MIN_DWELL
            THEN [c EXCEPT !.reps = @ + 1, !.state = "stand", !.dwell = 0]
            ELSE [c EXCEPT !.dwell = d]
    ELSE IF c.state = "stand" THEN
        LET d == IF sit THEN c.dwell + 1 ELSE 0
        IN  IF sit /\ d >= MIN_DWELL
            THEN [c EXCEPT !.state = "sit", !.dwell = 0]
            ELSE [c EXCEPT !.dwell = d]
    ELSE c

\* leg_raise_phase with the first measured frame already counted as dwell
leg_raise_phase_counts_first(c, any_up, both_down) ==
    IF c.state = "" THEN [c EXCEPT !.state = "down", !.dwell = IF any_up THEN 1 ELSE 0]
    ELSE IF c.state = "down" THEN
        LET d == IF any_up THEN c.dwell + 1 ELSE 0
        IN  IF any_up /\ d >= MIN_DWELL
            THEN [c EXCEPT !.state = "up", !.dwell = 0]
            ELSE [c EXCEPT !.dwell = d]
    ELSE IF c.state = "up" THEN
        LET d == IF both_down THEN c.dwell + 1 ELSE 0
        IN  IF both_down /\ d >= MIN_DWELL
            THEN [c EXCEPT !.reps = @ + 1, !.state = "down", !.dwell = 0]
            ELSE [c EXCEPT !.dwell = d]
    ELSE c

leg_raise_phase(c, any_up, both_down) ==
    IF c.state = "" THEN [c EXCEPT !.state = "down", !.dwell = 0]
    ELSE IF c.state = "down" THEN
        LET d == IF any_up THEN c.dwell + 1 ELSE 0
        IN  IF any_up /\ d >= MIN_DWELL
            THEN [c EXCEPT !.state = "up", !.dwell = 0]
            ELSE [c EXCEPT !.dwell = d]
    ELSE IF c.state = "up" THEN
        LET d == IF both_down THEN c.dwell + 1 ELSE 0
        IN  IF both_down /\ d >= MIN_DWELL
            THEN [c EXCEPT !.reps = @ + 1, !.state = "down", !.dwell = 0]
            ELSE [c EXCEPT !.dwell = d]
    ELSE c

\* the frame's conditions, for frames on which the logic gets past its guard
squat_down(k) == k.Lk[1] < SQUAT_DOWN_MAX /\ k.Rk[1] < SQUAT_DOWN_MAX
squat_up(k) == k.Lk[1] > SQUAT_UP_MIN /\ k.Rk[1] > SQUAT_UP_MIN
sts_sit(k) == k.Lk[1] < STS_SIT_MAX /\ k.Rk[1] < STS_SIT_MAX
sts_stand(k) == k.Lk[1] > STS_STAND_MIN /\ k.Rk[1] > STS_STAND_MIN

lr_any_up(k) ==
    LET Lh == hip_angle_side(k, "l")
        Rh == hip_angle_side(k, "r")
    IN  \/ (Lh # None /\ Lh[1] < LR_UP_MAX)
        \/ (Rh # None /\ Rh[1] < LR_UP_MAX)

\* both_down that needs an angle on both sides
lr_both_down_needs_both(k) ==
    LET Lh == hip_angle_side(k, "l")
        Rh == hip_angle_side(k, "r")
    IN  /\ (Lh # None /\ Lh[1] > LR_DOWN_MIN)
        /\ (Rh # None /\ Rh[1] > LR_DOWN_MIN)

lr_both_down(k) ==
    LET Lh == hip_angle_side(k, "l")
        Rh == hip_angle_side(k, "r")
    IN  /\ (Lh # None => Lh[1] > LR_DOWN_MIN)
        /\ (Rh # None => Rh[1] > LR_DOWN_MIN)

\* logic_squat with dwell cleared on a frame without both knee angles
logic_squat_clears_dwell(k, c) ==
    LET Lk == knee_angles(k)[1]
        Rk == knee_angles(k)[2]
    IN  IF Lk = None \/ Rk = None THEN [c EXCEPT !.dwell = 0]
        ELSE set_form(squat_phase(c, squat_down(k), squat_up(k)),
                      form_quality_squat(k))

logic_squat(k, c) ==
    LET Lk == knee_angles(k)[1]
        Rk == knee_angles(k)[2]
    IN  IF Lk = None \/ Rk = None THEN c
        ELSE set_form(squat_phase(c, squat_down(k), squat_up(k)),
                      form_quality_squat(k))

\* logic_sts with the form percentage written only on a phase change
logic_sts_form_on_change(k, c) ==
    LET Lk == knee_angles(k)[1]
        Rk == knee_angles(k)[2]
        n == sts_phase(c, sts_sit(k), sts_stand(k))
    IN  IF Lk = None \/ Rk = None THEN c
        ELSE IF n.state # c.state THEN set_form(n, form_quality_sts(k)) ELSE n

logic_sts(k, c) ==
    LET Lk == knee_angles(k)[1]
        Rk == knee_angles(k)[2]
    IN  IF Lk = None \/ Rk = None THEN c
        ELSE set_form(sts_phase(c, sts_sit(k), sts_stand(k)),
                      form_quality_sts(k))

logic_leg_raise(k, c) ==
    LET Lh == hip_angle_side(k, "l")
        Rh == hip_angle_side(k, "r")
    IN  IF Lh = None /\ Rh = None THEN c
        ELSE set_form(leg_raise_phase(c, lr_any_up(k), lr_both_down(k)),
                      form_quality_legraise(k))

\* EXER_REG[rc.exercise][1](kps, rc)
EXER_REG(ex, k, c) ==
    IF ex = "squat" THEN logic_squat(k, c)
    ELSE IF ex = "sts" THEN logic_sts(k, c)
    ELSE logic_leg_raise(k, c)

(* ---------------------------- angle engine ---------------------------- *)

\* A point of the angle engine is <<x, y>> in whole pixels.  Lengths are
\* fixed-point numbers with 8 fractional bits, cosines with 16; a square root
\* and a quotient are rounded down, so that, as in floating point, the
\* quotient dot / (n1 * n2) of two parallel vectors can come out above 1.
\* An angle comes out in whole degrees, within one degree of the exact one.

\* "p[0] > 0 and p[1] > 0" (every point here is an array of shape (2,))
valid_point(p) == p[1] > 0 /\ p[2] > 0

\* the largest r with r * r <= n, searched between lo and hi
RECURSIVE isqrt(_, _, _)
isqrt(n, lo, hi) ==
    IF lo >= hi THEN lo
    ELSE LET mid == (lo + hi + 1) \div 2
         IN  IF mid * mid <= n THEN isqrt(n, mid, hi) ELSE isqrt(n, lo, mid - 1)

dot(v, w) == v[1] * w[1] + v[2] * w[2]

\* np.linalg.norm(v) in units of 2^-8 (|v|^2 <= 128)
norm(v) == isqrt(dot(v, v) * 2^16, 0, 2^12)

\* x * 2^16 / d rounded down, for 0 <= x, 0 < d < 2^23, x < 2^15
quot16(x, d) ==
    LET q0 == (x * 2^16) \div d
        r0 == (x * 2^16) % d
        q1 == (r0 * 2^8) \div d
        r1 == (r0 * 2^8) % d
    IN  q0 * 2^16 + q1 * 2^8 + (r1 * 2^8) \div d

\* 1.0 as a cosine
CosOne == 2^16

\* np.clip left out
clip_off(x, lo, hi) == x

\* np.clip(x, lo, hi)
clip(x, lo, hi) == IF x < lo THEN lo ELSE IF x > hi THEN hi ELSE x

\* cos(d degrees) in units of 2^-16, for d = 0..180 at index d + 1
CosTab == <<
    65536, 65526, 65496, 65446, 65376, 65287, 65177, 65048, 64898, 64729,
    64540, 64332, 64104, 63856, 63589, 63303, 62997, 62672, 62328, 61966,
    61584, 61183, 60764, 60326, 59870, 59396, 58903, 58393, 57865, 57319,
    56756, 56175, 55578, 54963, 54332, 53684, 53020, 52339, 51643, 50931,
    50203, 49461, 48703, 47930, 47143, 46341, 45525, 44695, 43852, 42995,
    42126, 41243, 40348, 39441, 38521, 37590, 36647, 35693, 34729, 33754,
    32768, 31772, 30767, 29753, 28729, 27697, 26656, 25607, 24550, 23486,
    22415, 21336, 20252, 19161, 18064, 16962, 15855, 14742, 13626, 12505,
    11380, 10252, 9121, 7987, 6850, 5712, 4572, 3430, 2287, 1144,
    0, -1144, -2287, -3430, -4572, -5712, -6850, -7987, -9121, -10252,
    -11380, -12505, -13626, -14742, -15855, -16962, -18064, -19161, -20252, -21336,
    -22415, -23486, -24550, -25607, -26656, -27697, -28729, -29753, -30767, -31772,
    -32768, -33754, -34729, -35693, -36647, -37590, -38521, -39441, -40348, -41243,
    -42126, -42995, -43852, -44695, -45525, -46341, -47143, -47930, -48703, -49461,
    -50203, -50931, -51643, -52339, -53020, -53684, -54332, -54963, -55578, -56175,
    -56756, -57319, -57865, -58393, -58903, -59396, -59870, -60326, -60764, -61183,
    -61584, -61966, -62328, -62672, -62997, -63303, -63589, -63856, -64104, -64332,
    -64540, -64729, -64898, -65048, -65177, -65287, -65376, -65446, -65496, -65526,
    -65536 >>

\* math.acos raised "math domain error"
ValueError == -1

\* math.degrees(math.acos(c)) in whole degrees, rounded down
acos_degrees(c) ==
    IF c > CosOne \/ c < -CosOne THEN ValueError
    ELSE Cardinality({d \in 1..180 : CosTab[d + 1] >= c})

angle_3pt(a, b, c) ==
    IF ~(valid_point(a) /\ valid_point(b) /\ valid_point(c)) THEN None
    ELSE LET v1 == <<a[1] - b[1], a[2] - b[2]>>
             v2 == <<c[1] - b[1], c[2] - b[2]>>
             n1 == norm(v1)
             n2 == norm(v2)
             d == dot(v1, v2)
             q == IF d >= 0 THEN quot16(d, n1 * n2) ELSE -quot16(-d, n1 * n2)
         IN  IF n1 = 0 \/ n2 = 0 THEN None
             ELSE Some(acos_degrees(clip(q, -CosOne, CosOne)))

\* indices of the landmarks the angles are taken from (KP, counted from 1)
KP_lsh == 6
KP_rsh == 7
KP_lhip == 12
KP_rhip == 13
KP_lknee == 14
KP_rknee == 15
KP_lank == 16
KP_rank == 17

\* knee_angles and hip_angle_side on a landmark array
knee_angles_kps(kp) ==
    <<angle_3pt(kp[KP_lhip], kp[KP_lknee], kp[KP_lank]),
      angle_3pt(kp[KP_rhip], kp[KP_rknee], kp[KP_rank])>>

hip_angle_side_kps(kp, side) ==
    IF side = "l" THEN angle_3pt(kp[KP_lsh], kp[KP_lhip], kp[KP_lank])
    ELSE angle_3pt(kp[KP_rsh], kp[KP_rhip], kp[KP_rank])

\* coordinates of the points tried: the sentinel, 0, and positive pixels
Coords == {-1, 0, 1, 2, 5, 9}
Points == Coords \X Coords

\* landmark arrays tried: the left leg and shoulder as given, the right
\* side with the same points in the opposite order, the face and arms at (1, 1)
Landmarks(sh, hip, knee, ank) ==
    [i \in 1..NUM_KP |->
        IF i = KP_lsh THEN sh ELSE IF i = KP_lhip THEN hip
        ELSE IF i = KP_lknee THEN knee ELSE IF i = KP_lank THEN ank
        ELSE IF i = KP_rsh THEN ank ELSE IF i = KP_rhip THEN knee
        ELSE IF i = KP_rknee THEN hip ELSE IF i = KP_rank THEN sh
        ELSE <<1, 1>>]

LegPoints == {<<-1, -1>>, <<5, 1>>, <<5, 5>>, <<5, 9>>, <<9, 5>>}

(* --------------------------- float32 values --------------------------- *)

\* A float32 value is <<m, e>>, standing for m * 2^e: <<0, 0>> for zero,
\* otherwise 2^23 <= |m| < 2^24 (24 significant bits).  The arithmetic below
\* is IEEE round-to-nearest, ties to even, on positive values; every
\* intermediate stays below 2^31.

F32Zero == <<0, 0>>

\* the float32 of a whole number n with |n| < 2^24
F32OfInt(n) ==
    IF n = 0 THEN F32Zero
    ELSE LET a == IF n < 0 THEN -n ELSE n
             k == CHOOSE j \in 0..23 : a * 2^j >= 2^23 /\ a * 2^j < 2^24
         IN  <<n * 2^k, -k>>

\* x * y as <<hi, lo>>, standing for hi * 2^30 + lo with lo < 2^30
\* (0 <= x, y < 2^29)
MulWide(x, y) ==
    LET x1 == x \div 2^15
        x0 == x % 2^15
        y1 == y \div 2^15
        y0 == y % 2^15
        c == x1 * y0 + x0 * y1
        lo0 == (c % 2^15) * 2^15 + x0 * y0
    IN  <<x1 * y1 + c \div 2^15 + lo0 \div 2^30, lo0 % 2^30>>

\* (n + f) * 2^e rounded to 24 bits, where 2^28 <= n < 2^30 and sticky says
\* whether the dropped fraction f (0 <= f < 1) is non-zero; k bits are dropped
F32RoundBits(n, sticky, e, k) ==
    LET q == n \div 2^k
        r == n % 2^k
        half == 2^(k - 1)
        up == \/ r > half
              \/ (r = half /\ sticky)
              \/ (r = half /\ ~sticky /\ q % 2 = 1)
    IN  IF up THEN (IF q + 1 = 2^24 THEN <<2^23, e + k + 1>> ELSE <<q + 1, e + k>>)
        ELSE <<q, e + k>>

F32Round(n, sticky, e) == F32RoundBits(n, sticky, e, IF n >= 2^29 THEN 6 ELSE 5)

\* float32 product of two positive values
F32Mul(a, b) ==
    LET p == MulWide(a[1], b[1])
    IN  F32Round(p[1] * 2^12 + p[2] \div 2^18, p[2] % 2^18 # 0, a[2] + b[2] + 18)

\* float32 sum of two positive values
F32Add(a, b) ==
    LET hiv == IF a[2] >= b[2] THEN a ELSE b
        lov == IF a[2] >= b[2] THEN b ELSE a
        k == hiv[2] - lov[2]
    IN  IF k >= 27 THEN hiv
        ELSE F32Round(hiv[1] * 2^5 + (lov[1] * 2^5) \div 2^k,
                      (lov[1] * 2^5) % 2^k # 0, hiv[2] - 5)

\* the float32 nearest to n/d, for 0 < n < d <= 100
F32OfRatio(n, d) ==
    LET k == CHOOSE j \in 24..27 : (n * 2^j) \div d >= 2^23 /\ (n * 2^j) \div d < 2^24
        q == (n * 2^k) \div d
        r == (n * 2^k) % d
        m == IF 2 * r > d \/ (2 * r = d /\ q % 2 = 1) THEN q + 1 ELSE q
    IN  IF m = 2^24 THEN <<2^23, 1 - k>> ELSE <<m, -k>>

(* ----------------------------- stabilizer ----------------------------- *)

\* A landmark is <<x, y>> of float32 values; an array is a sequence of them.
Pt(x, y) == <<F32OfInt(x), F32OfInt(y)>>

SentinelPt == Pt(-1, -1)

\* a value of at least 1 and below 64 in units of 2^-23 (below 2^29)
ToUnits(v) == v[1] * 2^(v[2] + 23)

AbsDiff(a, b) ==
    LET x == ToUnits(a)
        y == ToUnits(b)
    IN  IF x >= y THEN x - y ELSE y - x

\* "float(np.linalg.norm(kps[i] - prev)) > 6.0", decided on the exact
\* difference of the two landmarks: dx^2 + dy^2 > px^2
dist_gt(cur, prev, px) ==
    LET sx == MulWide(AbsDiff(cur[1], prev[1]), AbsDiff(cur[1], prev[1]))
        sy == MulWide(AbsDiff(cur[2], prev[2]), AbsDiff(cur[2], prev[2]))
        lo0 == sx[2] + sy[2]
        hi == sx[1] + sy[1] + lo0 \div 2^30
        lo == lo0 % 2^30
        t == px * px * 2^16
    IN  hi > t \/ (hi = t /\ lo > 0)

\* the float32 factors "alpha" and "1.0 - alpha" of the two speeds
fast_new == F32OfRatio(alpha_fast, 100)
fast_old == F32OfRatio(100 - alpha_fast, 100)
slow_new == F32OfRatio(alpha_slow, 100)
slow_old == F32OfRatio(100 - alpha_slow, 100)

\* blend that adds the weighted current value to the whole previous one
blend_adds_step(old, new, prev, cur) == F32Add(prev, F32Mul(new, cur))

\* "(1.0 - alpha) * prev + alpha * kps[i]" on one coordinate, in float32
blend(old, new, prev, cur) == F32Add(F32Mul(old, prev), F32Mul(new, cur))

\* ema_joint without the recovery branch: a joint stays invalid after an
\* invalid stored value
ema_joint_no_recovery(prev, cur) ==
    IF cur[1][1] <= 0 \/ cur[2][1] <= 0 THEN SentinelPt
    ELSE IF prev[1][1] <= 0 \/ prev[2][1] <= 0 THEN SentinelPt
    ELSE IF dist_gt(cur, prev, FAST_DIST)
    THEN <<blend(fast_old, fast_new, prev[1], cur[1]),
           blend(fast_old, fast_new, prev[2], cur[2])>>
    ELSE <<blend(slow_old, slow_new, prev[1], cur[1]),
           blend(slow_old, slow_new, prev[2], cur[2])>>

\* ema_joint with the fast factor already at a displacement of exactly 6 px
ema_joint_fast_at_six(prev, cur) ==
    IF cur[1][1] <= 0 \/ cur[2][1] <= 0 THEN SentinelPt
    ELSE IF prev[1][1] <= 0 \/ prev[2][1] <= 0 THEN cur
    ELSE IF dist_gt(cur, prev, FAST_DIST - 1)
    THEN <<blend(fast_old, fast_new, prev[1], cur[1]),
           blend(fast_old, fast_new, prev[2], cur[2])>>
    ELSE <<blend(slow_old, slow_new, prev[1], cur[1]),
           blend(slow_old, slow_new, prev[2], cur[2])>>

\* body of the per-joint loop of update: the new out[i]
ema_joint(prev, cur) ==
    IF cur[1][1] <= 0 \/ cur[2][1] <= 0 THEN SentinelPt
    ELSE IF prev[1][1] <= 0 \/ prev[2][1] <= 0 THEN cur
    ELSE IF dist_gt(cur, prev, FAST_DIST)
    THEN <<blend(fast_old, fast_new, prev[1], cur[1]),
           blend(fast_old, fast_new, prev[2], cur[2])>>
    ELSE <<blend(slow_old, slow_new, prev[1], cur[1]),
           blend(slow_old, slow_new, prev[2], cur[2])>>

\* mask with the confidence floor one hundredth lower
mask_floor_lower(k, conf) ==
    [i \in 1..Len(k) |-> IF conf[i] >= KEYPT_MIN_CONF - 1 THEN k[i] ELSE SentinelPt]

\* "kps[~mask_good] = -1.0"
mask(k, conf) ==
    [i \in 1..Len(k) |-> IF conf[i] >= KEYPT_MIN_CONF THEN k[i] ELSE SentinelPt]

\* kps.shape of a landmark array: <<entries, components of an entry>>
shape(k) == <<Len(k), IF Len(k) = 0 THEN 0 ELSE Len(k[1])>>

\* update that forgets the stored state when it rejects its arguments
update_clears_state(st, k, conf) ==
    IF k = None \/ conf = None
    THEN [state |-> None, ret |-> None, raised |-> FALSE]
    ELSE IF shape(k[1]) # <<NUM_KP, 2>> \/ Len(conf[1]) < NUM_KP
    THEN [state |-> None, ret |-> None, raised |-> FALSE]
    ELSE IF Len(conf[1]) # Len(k[1])
    THEN [state |-> st, ret |-> None, raised |-> TRUE]
    ELSE LET masked == mask(k[1], conf[1])
         IN  IF st = None
             THEN [state |-> Some(masked), ret |-> Some(masked), raised |-> FALSE]
             ELSE LET out == [i \in 1..NUM_KP |-> ema_joint(st[1][i], masked[i])]
                  IN  [state |-> Some(out), ret |-> Some(out), raised |-> FALSE]

\* update that keeps the stored entry of a joint whose output is the sentinel
update_keeps_invalid(st, k, conf) ==
    IF k = None \/ conf = None
    THEN [state |-> st, ret |-> None, raised |-> FALSE]
    ELSE IF shape(k[1]) # <<NUM_KP, 2>> \/ Len(conf[1]) < NUM_KP
    THEN [state |-> st, ret |-> None, raised |-> FALSE]
    ELSE IF Len(conf[1]) # Len(k[1])
    THEN [state |-> st, ret |-> None, raised |-> TRUE]
    ELSE LET masked == mask(k[1], conf[1])
         IN  IF st = None
             THEN [state |-> Some(masked), ret |-> Some(masked), raised |-> FALSE]
             ELSE LET out == [i \in 1..NUM_KP |-> ema_joint(st[1][i], masked[i])]
                      kept == [i \in 1..NUM_KP |->
                                   IF out[i] = SentinelPt THEN st[1][i] ELSE out[i]]
                  IN  [state |-> Some(kept), ret |-> Some(out), raised |-> FALSE]

\* EMAStabilizer.update(kps, conf) on stored state st: the new stored state,
\* the value returned, and whether the call raised instead of returning.
\* A boolean mask longer than the array it indexes is an IndexError.
\* update that stores the masked frame and returns the smoothed one
update_stores_frame(st, k, conf) ==
    IF k = None \/ conf = None
    THEN [state |-> st, ret |-> None, raised |-> FALSE]
    ELSE IF shape(k[1]) # <<NUM_KP, 2>> \/ Len(conf[1]) < NUM_KP
    THEN [state |-> st, ret |-> None, raised |-> FALSE]
    ELSE IF Len(conf[1]) # Len(k[1])
    THEN [state |-> st, ret |-> None, raised |-> TRUE]
    ELSE LET masked == mask(k[1], conf[1])
         IN  IF st = None
             THEN [state |-> Some(masked), ret |-> Some(masked), raised |-> FALSE]
             ELSE LET out == [i \in 1..NUM_KP |-> ema_joint(st[1][i], masked[i])]
                  IN  [state |-> Some(masked), ret |-> Some(out), raised |-> FALSE]

update(st, k, conf) ==
    IF k = None \/ conf = None
    THEN [state |-> st, ret |-> None, raised |-> FALSE]
    ELSE IF shape(k[1]) # <<NUM_KP, 2>> \/ Len(conf[1]) < NUM_KP
    THEN [state |-> st, ret |-> None, raised |-> FALSE]
    ELSE IF Len(conf[1]) # Len(k[1])
    THEN [state |-> st, ret |-> None, raised |-> TRUE]
    ELSE LET masked == mask(k[1], conf[1])
         IN  IF st = None
             THEN [state |-> Some(masked), ret |-> Some(masked), raised |-> FALSE]
             ELSE LET out == [i \in 1..NUM_KP |-> ema_joint(st[1][i], masked[i])]
                  IN  [state |-> Some(out), ret |-> Some(out), raised |-> FALSE]

\* Landmark and confidence arrays of n entries: one value on the odd joints,
\* one on the even joints.
Array(n, a, b) == [i \in 1..n |-> IF i % 2 = 1 THEN a ELSE b]

\* (0,10) has a non-positive coordinate; (16,10) is exactly 6 px from (10,10),
\* (14,14) less than 6 px, (30,10) more.
PointsOdd == {Pt(0, 10), Pt(10, 10), Pt(16, 10), Pt(14, 14), Pt(30, 10)}
PointsEven == {Pt(20, 20), Pt(24, 20)}

\* just below the confidence floor, and on it
ConfVals == {34, 35}

(* --------------------------- subject selector ------------------------- *)

\* A bounding box is <<x1, y1, x2, y2>> in whole pixels.  Scores and their
\* terms are in units of 10^-4, each term rounded down.

\* _bbox_center_bonus: max(0, 0.15 - dist), dist the distance of the box
\* centre from the frame centre in frame widths and heights.  With
\* ex = x1 + x2 - W and ey = y1 + y2 - H, dist = sqrt(n) / (2 W H) for
\* n = (ex H)^2 + (ey W)^2.
bbox_center_bonus(xyxy, W, H) ==
    LET Wm == Max(1, W)
        Hm == Max(1, H)
        ex == xyxy[1] + xyxy[3] - Wm
        ey == xyxy[2] + xyxy[4] - Hm
        n == (ex * Hm) * (ex * Hm) + (ey * Wm) * (ey * Wm)
        full == 2 * Wm * Hm
    IN  IF 400 * n >= 9 * full * full THEN 0
        ELSE 1500 - (isqrt(n * 2^16, 0, 2^15) * 10^4) \div (2^8 * full)

\* intersection and union areas of two boxes ("+ 1e-6" in the denominator
\* only keeps a union of area 0 from dividing by zero)
inter_area(a, b) ==
    LET iw == Max(0, Min(a[3], b[3]) - Max(a[1], b[1]))
        ih == Max(0, Min(a[4], b[4]) - Max(a[2], b[2]))
    IN  iw * ih

box_area(a) == Max(0, (a[3] - a[1]) * (a[4] - a[2]))

union_area(a, b) == box_area(a) + box_area(b) - inter_area(a, b)

\* _iou(a, b) of two optional boxes
iou(a, b) ==
    IF a = None \/ b = None THEN 0
    ELSE IF union_area(a[1], b[1]) = 0 THEN 0
    ELSE (inter_area(a[1], b[1]) * 10^4) \div union_area(a[1], b[1])

RECURSIVE SumSeq(_)
SumSeq(q) == IF q = <<>> THEN 0 ELSE Head(q) + SumSeq(Tail(q))

\* np.nanmean of keypoint confidences given in hundredths
nanmean(kconf) == (SumSeq(kconf) * 100) \div Len(kconf)

\* the score without the persistence term
score_without_persistence(c, W, H, prev_bb) ==
    nanmean(c.kconf) + bbox_center_bonus(c.bb, W, H)

\* the score without the confidence term
score_without_confidence(c, W, H, prev_bb) ==
    bbox_center_bonus(c.bb, W, H) + (20 * iou(prev_bb, Some(c.bb))) \div 100

\* "score = mean_conf + bonus + (0.20 * _iou(prev_bb, bb))"
score(c, W, H, prev_bb) ==
    nanmean(c.kconf) + bbox_center_bonus(c.bb, W, H)
    + (20 * iou(prev_bb, Some(c.bb))) \div 100

\* the loop of pick_best_person from candidate i on; best is <<best_i,
\* best_s>>, best_i = 0 while no candidate is held (best_s = -1e9)
RECURSIVE pick_loop(_, _, _, _, _, _)
pick_loop(cands, W, H, prev_bb, i, best) ==
    IF i > Len(cands) THEN best[1]
    ELSE IF best[1] = 0 \/ score(cands[i], W, H, prev_bb) > best[2]
    THEN pick_loop(cands, W, H, prev_bb, i + 1,
                   <<i, score(cands[i], W, H, prev_bb)>>)
    ELSE pick_loop(cands, W, H, prev_bb, i + 1, best)

\* pick_best_person that takes the first detection of the list
pick_best_person_first(res, W, H, prev_bb) ==
    IF res = None THEN None
    ELSE IF Len(res[1]) = 0 THEN None
    ELSE Some(1)

\* pick_best_person: the index (from 1) of the chosen candidate, whose
\* landmarks, confidences and box are returned; None for "no subject".
\* res is None or the list of detections, each [kconf, bb].
pick_best_person(res, W, H, prev_bb) ==
    IF res = None THEN None
    ELSE IF Len(res[1]) = 0 THEN None
    ELSE Some(pick_loop(res[1], W, H, prev_bb, 1, <<0, 0>>))

\* "H, W = frame.shape[:2]": the frame is 16 x 8 pixels
FrameShape == <<8, 16>>

\* boxes tried: on the centre, one pixel left and right of it, and in the
\* corners of the frame
Boxes ==
    {<<6, 2, 10, 6>>, <<5, 2, 9, 6>>, <<7, 2, 11, 6>>,
     <<0, 0, 4, 4>>, <<0, 0, 6, 4>>, <<12, 4, 16, 8>>}

\* keypoint confidences tried: all 0.60, all 0.85, and 0.90 / 0.70 by turns
SelectorConfs ==
    {Array(NUM_KP, 60, 60), Array(NUM_KP, 85, 85), Array(NUM_KP, 90, 70)}

Candidates == [kconf : SelectorConfs, bb : Boxes]

(* --------------------------- history helpers -------------------------- *)

\* The logic gets past its "no measurement" guard on this frame.
HasMeasurement(ex, k) ==
    /\ k.pose
    /\ IF ex = "leg_raise" THEN k.Lh # None \/ k.Rh # None
                           ELSE k.Lk # None /\ k.Rk # None

\* The phase whose entering condition holds on the frame, "-" when none does.
Held(ex, k) ==
    IF ~HasMeasurement(ex, k) THEN "-"
    ELSE IF ex = "squat" THEN
        (IF squat_down(k) THEN "down" ELSE IF squat_up(k) THEN "up" ELSE "-")
    ELSE IF ex = "sts" THEN
        (IF sts_sit(k) THEN "sit" ELSE IF sts_stand(k) THEN "stand" ELSE "-")
    ELSE (IF lr_any_up(k) THEN "up" ELSE IF lr_both_down(k) THEN "down" ELSE "-")

StartPhase(ex) ==
    IF ex = "squat" THEN "up" ELSE IF ex = "sts" THEN "sit" ELSE "down"

OtherPhase(ex, ph) ==
    IF ex = "sts" THEN (IF ph = "sit" THEN "stand" ELSE "sit")
    ELSE (IF ph = "up" THEN "down" ELSE "up")

\* The phase a rep is counted on entering, and the phase it is entered from.
CountTo(ex) ==
    IF ex = "squat" THEN "up" ELSE IF ex = "sts" THEN "stand" ELSE "down"

CountFrom(ex) == OtherPhase(ex, CountTo(ex))

Shift(win, h) == <<win[2], win[3], h>>

EmptyWin == <<"-", "-", "-">>

\* Squat pattern since a fresh counter: "U" one or more frames with both knees
\* > 165, "D1".."D3" then 1, 2, 3 or more frames with both knees < 120,
\* "V1".."V3" then 1, 2, 3 or more frames with both knees > 165.
PatNext(p, ex, k) ==
    LET h == Held(ex, k)
    IN  IF ex # "squat" THEN "off"
        ELSE IF p = "fresh" THEN (IF h = "up" THEN "U" ELSE "off")
        ELSE IF p = "U" THEN
            (IF h = "up" THEN "U" ELSE IF h = "down" THEN "D1" ELSE "off")
        ELSE IF p = "D1" THEN (IF h = "down" THEN "D2" ELSE "off")
        ELSE IF p = "D2" THEN (IF h = "down" THEN "D3" ELSE "off")
        ELSE IF p = "D3" THEN
            (IF h = "down" THEN "D3" ELSE IF h = "up" THEN "V1" ELSE "off")
        ELSE IF p = "V1" THEN (IF h = "up" THEN "V2" ELSE "off")
        ELSE IF p \in {"V2", "V3"} THEN (IF h = "up" THEN "V3" ELSE "off")
        ELSE "off"

\* A squat dip: it begins on a frame with both knees < 120 met in phase "up"
\* with no dwell pending ("d1"), may last a second such frame ("d2"), and is
\* followed by frames with both knees > 165 ("a1", "a2": after a dip of 1, 2
\* frames).  Frames without a measurement are not part of the angle sequence.
DipNext(d, c, k) ==
    LET h == Held(c.exercise, k)
        begins == c.state = "up" /\ c.dwell = 0 /\ h = "down"
    IN  IF c.exercise # "squat" THEN "none"
        ELSE IF ~HasMeasurement(c.exercise, k) THEN d
        ELSE IF d = "d1" THEN
            (IF h = "down" THEN "d2" ELSE IF h = "up" THEN "a1" ELSE "none")
        ELSE IF d = "d2" THEN (IF h = "up" THEN "a2" ELSE "none")
        ELSE IF begins THEN "d1"
        ELSE IF d \in {"a1", "a2"} /\ h = "up" THEN d
        ELSE "none"

\* A run of frames with a measurement that all satisfy the condition for
\* leaving a phase: it begins on such a frame met with dwell 0, and records
\* the phase and the rep count it began in and its length so far (to 3).
NoLead == [from |-> "", reps |-> 0, n |-> 0]

LeadNext(l, c, k) ==
    LET h == Held(c.exercise, k)
    IN  IF ~HasMeasurement(c.exercise, k) THEN l
        ELSE IF c.state # "" /\ c.dwell = 0 /\ h = OtherPhase(c.exercise, c.state)
        THEN [from |-> c.state, reps |-> c.reps, n |-> 1]
        ELSE IF l.n \in {1, 2} /\ h = OtherPhase(c.exercise, l.from)
        THEN [l EXCEPT !.n = @ + 1]
        ELSE NoLead

\* The frames with a measurement since the latest rep, or since creation or
\* reset when no rep was counted since: "since" is how many there were after
\* the frame of the latest rep (absent when there was no rep; counted to 6),
\* "seen" how many of them satisfied the condition of the phase a rep is
\* counted from (counted to 3), "run" the length of the current run of such
\* frames until a run of 3 is complete ("out"), and "back" the length of the
\* current run of frames with the condition of the counting phase after that
\* (counted to 3).
NoTally == [since |-> None, seen |-> 0, run |-> 0, out |-> FALSE, back |-> 0]

\* the tally with the frame k counted in
TallyAt(t, ex, k) ==
    LET h == Held(ex, k)
        r == IF t.out THEN t.run
             ELSE IF h = CountFrom(ex) THEN Min(3, t.run + 1) ELSE 0
    IN  IF ~HasMeasurement(ex, k) THEN t
        ELSE [since |-> IF t.since = None THEN None ELSE Some(Min(6, t.since[1] + 1)),
              seen |-> IF h = CountFrom(ex) THEN Min(3, t.seen + 1) ELSE t.seen,
              run |-> r,
              out |-> (t.out \/ r = 3),
              back |-> IF ~t.out THEN 0
                       ELSE IF h = CountTo(ex) THEN Min(3, t.back + 1) ELSE 0]

\* the tally after the frame k: it starts again on a frame that counts a rep
TallyNext(t, c, k) ==
    IF k.pose /\ EXER_REG(c.exercise, k, c).reps # c.reps
    THEN [NoTally EXCEPT !.since = Some(0)]
    ELSE TallyAt(t, c.exercise, k)

(* ------------------------------ host loop ----------------------------- *)

Keys == {"none", "r", "1", "2", "3", "q"}

\* the argument the key's handler passes to rc.reset
KeyExercise(kk) ==
    IF kk = "1" THEN Some("squat")
    ELSE IF kk = "2" THEN Some("sts")
    ELSE IF kk = "3" THEN Some("leg_raise")
    ELSE None

\* no pipeline frame yet: no candidate picked, no box chosen, no fault
NoFrame == [picked |-> None, conf |-> None, chosen |-> None, raised |-> FALSE]

pipeVars == <<prevbb, frames, last, lastBox>>

\* the loop before its first frame: a new counter, a new stabilizer
Idle ==
    /\ rc = RepCounter("squat")
    /\ pc = "frame"
    /\ kps = NoPose
    /\ key = ""
    /\ prevState = ""
    /\ fresh = TRUE
    /\ pat = "fresh"
    /\ dip = "none"
    /\ dipReps = 0
    /\ streamWin = EmptyWin
    /\ validWin = EmptyWin
    /\ lead = NoLead
    /\ tally = NoTally
    /\ prevbb = None
    /\ frames = 0
    /\ last = NoFrame
    /\ lastBox = None
    /\ stab = None
    /\ calls = <<>>

Init == Idle /\ fn = None

\* One frame of the loop: the stabilizer's result goes to the active
\* exercise's logic, or to nothing when there is no landmark array.
Frame ==
    /\ pc = "frame"
    /\ rc.reps < MaxReps
    /\ \E k \in PoseInputs(rc.exercise) \cup {NoPose} :
        LET ex == rc.exercise
            d == DipNext(dip, rc, k)
        IN  /\ rc' = IF k.pose THEN EXER_REG(ex, k, rc) ELSE rc
            /\ kps' = k
            /\ fresh' = (fresh /\ ~HasMeasurement(ex, k))
            /\ pat' = PatNext(pat, ex, k)
            /\ dip' = d
            /\ dipReps' = IF d = "none" THEN 0
                          ELSE IF d = "d1" /\ dip # "d1" THEN rc.reps
                          ELSE dipReps
            /\ streamWin' = Shift(streamWin, Held(ex, k))
            /\ validWin' = IF HasMeasurement(ex, k)
                           THEN Shift(validWin, Held(ex, k)) ELSE validWin
            /\ lead' = LeadNext(lead, rc, k)
            /\ tally' = TallyNext(tally, rc, k)
    /\ prevState' = rc.state
    /\ pc' = "key"
    /\ key' = ""
    /\ UNCHANGED <<pipeVars, stab, calls, fn>>

\* cap.read() fails: the loop ends.
EndOfStream ==
    /\ pc = "frame"
    /\ pc' = "done"
    /\ UNCHANGED <<rc, kps, key, prevState, fresh, pat, dip, dipReps, streamWin,
                   validWin, lead, tally, pipeVars, stab, calls, fn>>

\* The key read at the end of the iteration: reset, switch exercise, quit,
\* or a key that does not touch the counter.
Key ==
    /\ pc = "key"
    /\ \E kk \in Keys :
        /\ key' = kk
        /\ IF kk \in {"r", "1", "2", "3"}
           THEN /\ rc' = reset(rc, KeyExercise(kk))
                /\ prevState' = ""
                /\ fresh' = TRUE
                /\ pat' = IF rc'.exercise = "squat" THEN "fresh" ELSE "off"
                /\ dip' = "none"
                /\ dipReps' = 0
                /\ streamWin' = EmptyWin
                /\ validWin' = EmptyWin
                /\ lead' = NoLead
                /\ tally' = NoTally
           ELSE UNCHANGED <<rc, prevState, fresh, pat, dip, dipReps, streamWin, validWin,
                            lead, tally>>
        /\ pc' = IF kk = "q" THEN "done" ELSE "frame"
    /\ UNCHANGED <<kps, pipeVars, stab, calls, fn>>

Next == Frame \/ EndOfStream \/ Key

Spec == Init /\ [][Next]_vars

(* -------------------------- stabilizer calls -------------------------- *)

counterVars == <<rc, pc, kps, key, prevState, fresh, pat, dip, dipReps,
                 streamWin, validWin, lead, tally, prevbb, frames, last, lastBox>>

Call(k, conf) ==
    \E r \in {update(stab, k, conf)} :
        /\ stab' = r.state
        /\ calls' = Append(calls, [kps |-> k, conf |-> conf,
                                   ret |-> r.ret, raised |-> r.raised])
        /\ UNCHANGED <<counterVars, fn>>

\* update with 17 landmarks and 17 confidences
Update ==
    /\ Len(calls) < MaxUpdates
    /\ \E a \in PointsOdd, b \in PointsEven, ca \in ConfVals, cb \in ConfVals :
        Call(Some(Array(NUM_KP, a, b)), Some(Array(NUM_KP, ca, cb)))

\* update with an absent argument (length 0 below), with arrays of another
\* length, or with landmarks of 3 components
UpdateMalformed ==
    /\ Len(calls) < MaxUpdates
    /\ \E nk \in {0, NUM_KP - 1, NUM_KP, NUM_KP + 1},
          nc \in {0, NUM_KP - 1, NUM_KP, NUM_KP + 1},
          p \in {Pt(10, 10), Pt(10, 10) \o <<F32OfInt(10)>>} :
        /\ nk # NUM_KP \/ nc # NUM_KP \/ Len(p) # 2
        /\ Len(p) = 2 \/ nk = NUM_KP
        /\ Call(IF nk = 0 THEN None ELSE Some(Array(nk, p, p)),
                IF nc = 0 THEN None ELSE Some(Array(nc, 35, 35)))

NextStab == Update \/ UpdateMalformed

SpecStab == Init /\ [][NextStab]_vars

(* ------------------------ pure function calls ------------------------ *)

\* a call not made yet
Pending(op, args) == [op |-> op, args |-> args, ret |-> None, done |-> FALSE]

\* the call made: its result stored
Return(v) ==
    /\ fn' = [fn EXCEPT !.ret = v, !.done = TRUE]
    /\ UNCHANGED <<counterVars, stab, calls>>

AngleCalls ==
    {Pending("angle_3pt", <<a, b, c>>) : a \in Points, b \in Points, c \in Points}
    \cup {Pending("knee_angles", <<Landmarks(sh, hip, knee, ank)>>) :
              sh \in {<<5, 1>>}, hip \in LegPoints, knee \in LegPoints, ank \in LegPoints}
    \cup {Pending("hip_angle_side", <<Landmarks(sh, hip, knee, ank), side>>) :
              sh \in LegPoints, hip \in LegPoints, knee \in {<<5, 5>>},
              ank \in LegPoints, side \in {"l", "r"}}

InitAngle == Idle /\ fn \in AngleCalls

Angle3pt ==
    /\ fn.op = "angle_3pt" /\ ~fn.done
    /\ Return(angle_3pt(fn.args[1], fn.args[2], fn.args[3]))

KneeAngles ==
    /\ fn.op = "knee_angles" /\ ~fn.done
    /\ Return(knee_angles_kps(fn.args[1]))

HipAngleSide ==
    /\ fn.op = "hip_angle_side" /\ ~fn.done
    /\ Return(hip_angle_side_kps(fn.args[1], fn.args[2]))

NextAngle == Angle3pt \/ KneeAngles \/ HipAngleSide

SpecAngle == InitAngle /\ [][NextAngle]_vars

\* knee angles given to the quality scorers: every whole degree, or absent
ScorerAngles == {None} \cup {Some(a) : a \in 0..180}

\* a landmark array from which knee_angles measures l and r
Knees(l, r) == [Lk |-> l, Rk |-> r, Lh |-> None, Rh |-> None, pose |-> TRUE]

\* a landmark array from which hip_angle_side measures l and r
Hips(l, r) == [Lk |-> None, Rk |-> None, Lh |-> l, Rh |-> r, pose |-> TRUE]

FormOps == {"form_quality_squat", "form_quality_sts", "form_quality_legraise"}

FormCalls ==
    {Pending(op, <<IF op = "form_quality_legraise" THEN Hips(l, r) ELSE Knees(l, r)>>) :
        op \in FormOps, l \in ScorerAngles, r \in ScorerAngles}

InitForm == Idle /\ fn \in FormCalls

FormQualitySquat ==
    /\ fn.op = "form_quality_squat" /\ ~fn.done
    /\ Return(form_quality_squat(fn.args[1]))

FormQualitySts ==
    /\ fn.op = "form_quality_sts" /\ ~fn.done
    /\ Return(form_quality_sts(fn.args[1]))

FormQualityLegraise ==
    /\ fn.op = "form_quality_legraise" /\ ~fn.done
    /\ Return(form_quality_legraise(fn.args[1]))

NextForm == FormQualitySquat \/ FormQualitySts \/ FormQualityLegraise

SpecForm == InitForm /\ [][NextForm]_vars

PickCalls ==
    {Pending("pick_best_person", <<res, prev_bb>>) :
        res \in {None, Some(<<>>)}
                \cup {Some(<<c>>) : c \in Candidates}
                \cup {Some(<<c, d>>) : c \in Candidates, d \in Candidates},
        prev_bb \in {None} \cup {Some(b) : b \in Boxes}}

InitPick == Idle /\ fn \in PickCalls

PickBestPerson ==
    /\ fn.op = "pick_best_person" /\ ~fn.done
    /\ Return(pick_best_person(fn.args[1], FrameShape[2], FrameShape[1], fn.args[2]))

NextPick == PickBestPerson

SpecPick == InitPick /\ [][NextPick]_vars

(* ------------------------------- claims ------------------------------- *)

\* A step of the loop that processes a frame, and one that handles a key.
FrameStep == pc = "frame" /\ pc' = "key"
KeyStep == pc = "key" /\ pc' # "key"

\* form_quality_<exercise>(kps)
Quality(ex, k) ==
    IF ex = "squat" THEN form_quality_squat(k)
    ELSE IF ex = "sts" THEN form_quality_sts(k)
    ELSE form_quality_legraise(k)

\* C1: a fresh squat counter fed one or more frames with both knees > 165,
\* then 3 or more consecutive frames with both knees < 120, then 3 or more
\* consecutive frames with both knees > 165 (170,170,170,100,100,100,170,170,170
\* is one such sequence) shows exactly 1 rep and phase "up".
C1_SquatPatternOneRep == pat = "V3" => rc.reps = 1 /\ rc.state = "up"

C1_Witness ==
    /\ pat = "V3"
    /\ kps.Lk = Some(170) /\ kps.Rk = Some(170)
    /\ rc.reps = 1

\* C2: in squat phase "up", a dip of only 1 or 2 frames with both knees < 120
\* followed by frames with both knees > 165 never moves the phase to "down"
\* and counts no rep.
C2_ShortDipIgnored ==
    dip \in {"d1", "d2", "a1", "a2"} =>
        rc.exercise = "squat" /\ rc.state = "up" /\ rc.reps = dipReps

C2_Witness ==
    /\ dip = "a2" /\ pc = "key"
    /\ Held(rc.exercise, kps) = "up"
    /\ rc.reps = 1

\* C3: on a frame the rep count changes only when the phase changes in the
\* exercise's counting direction on that frame (squat down->up, sit-to-stand
\* sit->stand, leg-raise up->down), and then by exactly 1; the opposite
\* phase change leaves the rep count as it was.
C3_CountOnlyInCountingDirection ==
    [][FrameStep =>
        LET ex == rc.exercise
            counting == rc.state = CountFrom(ex) /\ rc'.state = CountTo(ex)
            opposite == rc.state = CountTo(ex) /\ rc'.state = CountFrom(ex)
        IN  /\ rc'.reps # rc.reps => counting /\ rc'.reps = rc.reps + 1
            /\ opposite => rc'.reps = rc.reps]_vars

\* a sit-to-stand counter back in "sit" with its one rep kept
C3_Witness ==
    /\ rc.exercise = "sts" /\ rc.reps = 1
    /\ prevState = "stand" /\ rc.state = "sit" /\ pc = "key"

\* a frame with a measurement on which the condition for leaving the current
\* phase fails leaves dwell at 0
FailedConditionClearsDwell ==
    (/\ FrameStep
     /\ HasMeasurement(rc.exercise, kps')
     /\ rc.state # ""
     /\ Held(rc.exercise, kps') # OtherPhase(rc.exercise, rc.state))
    => rc'.dwell = 0

PhaseChange == FrameStep /\ rc.state # "" /\ rc'.state # rc.state

\* C4 as stated: a phase change happens on a frame only if the condition for
\* entering the new phase held on that frame and on the two frames right
\* before it in the frame stream; a frame on which the condition fails sets
\* dwell to 0.
C4_ThreeStreamFrames ==
    [][/\ PhaseChange =>
            streamWin' = <<rc'.state, rc'.state, rc'.state>>
       /\ FailedConditionClearsDwell]_vars

\* C4 amended: a phase change happens on a frame only if the condition for
\* entering the new phase held on that frame and on the two frames with a
\* valid measurement before it (frames without a measurement in between are
\* skipped and do not break the run); a frame with a measurement on which the
\* condition fails sets dwell to 0.
C4_ThreeMeasuredFrames ==
    [][/\ PhaseChange =>
            validWin' = <<rc'.state, rc'.state, rc'.state>>
       /\ FailedConditionClearsDwell]_vars

\* a phase change completed across a frame without a measurement
C4_Witness ==
    /\ pc = "key"
    /\ prevState # "" /\ prevState # rc.state
    /\ validWin = <<rc.state, rc.state, rc.state>>
    /\ streamWin # validWin

\* C5: a frame on which the active exercise has no valid measurement (squat,
\* sit-to-stand: a knee angle absent; leg-raise: both hip angles absent)
\* changes nothing in the counter: phase, dwell (not reset), reps and form
\* percentage stay as they were.
C5_NoMeasurementNoMutation ==
    [][FrameStep /\ ~HasMeasurement(rc.exercise, kps') => rc' = rc]_vars

\* a pending dwell of 2 kept over a pose frame with one knee angle absent
C5_Witness ==
    /\ pc = "key"
    /\ kps.pose /\ kps.Lk = None /\ kps.Rk # None
    /\ rc.exercise = "squat" /\ rc.dwell = 2 /\ rc.form_pct > 0

\* C6: the rep count is a natural number; a frame changes it by 0 or +1; it
\* decreases only in a reset or exercise switch, which sets it to 0.
C6_RepsMonotonic ==
    /\ [](rc.reps \in Nat)
    /\ [][/\ FrameStep => rc'.reps \in {rc.reps, rc.reps + 1}
          /\ rc'.reps < rc.reps =>
                KeyStep /\ key' \in {"r", "1", "2", "3"} /\ rc'.reps = 0]_vars

\* a second rep counted after the first
C6_Witness == rc.reps = 2 /\ pc = "key"

\* C7: the first frame with a valid measurement after creation or reset sets
\* the phase to the exercise's starting phase (squat up, sit-to-stand sit,
\* leg-raise down) with dwell 0 and the rep count unchanged, whatever the
\* angles of that frame.
C7_FirstFrameStartsPhase ==
    [][FrameStep /\ fresh /\ HasMeasurement(rc.exercise, kps') =>
        /\ rc'.state = StartPhase(rc.exercise)
        /\ rc'.dwell = 0
        /\ rc'.reps = rc.reps]_vars

\* a first leg-raise frame with a raised leg: phase "down", dwell 0
C7_Witness ==
    /\ pc = "key"
    /\ prevState = "" /\ rc.exercise = "leg_raise"
    /\ Held(rc.exercise, kps) = "up"
    /\ rc.state = "down" /\ rc.dwell = 0

\* C8: reset (the reset-counter and switch-exercise keys) leaves rep count 0,
\* the phase of a newly created counter (unset), dwell 0 and form percentage
\* 0; the exercise is the supplied name, or unchanged when none is supplied.
C8_ResetClearsCounter ==
    [][KeyStep /\ key' \in {"r", "1", "2", "3"} =>
        /\ rc'.reps = 0
        /\ rc'.state = RepCounter(rc'.exercise).state
        /\ rc'.dwell = 0
        /\ rc'.form_pct = 0
        /\ rc'.exercise = IF KeyExercise(key') # None
                          THEN KeyExercise(key')[1] ELSE rc.exercise]_vars

\* reset without a name on a leg-raise counter that had taken measurements
C8_Witness ==
    /\ key = "r" /\ pc = "frame"
    /\ rc.exercise = "leg_raise"
    /\ HasMeasurement(rc.exercise, kps)
    /\ rc = RepCounter("leg_raise")

\* C9: a frame overwrites the stored form percentage exactly when a quality
\* value is computable on it (squat, sit-to-stand: both knee angles; leg-raise:
\* a hip angle), with that frame's value whatever the phase and dwell; on
\* every other frame the stored value stays.
C9_FormSticky ==
    [][FrameStep =>
        rc'.form_pct = IF kps'.pose /\ Quality(rc.exercise, kps') # None
                       THEN Quality(rc.exercise, kps')[1]
                       ELSE rc.form_pct]_vars

\* a stored form percentage kept over a frame without a measurement
C9_Witness ==
    /\ pc = "key"
    /\ ~HasMeasurement(rc.exercise, kps)
    /\ rc.exercise = "sts" /\ rc.form_pct = 83 /\ rc.dwell = 1

\* the call was made with 17 landmarks and 17 confidences, all >= 0.35
AllConfident(c) ==
    /\ c.kps # None /\ c.conf # None
    /\ Len(c.kps[1]) = NUM_KP /\ Len(c.conf[1]) = NUM_KP
    /\ \A i \in 1..NUM_KP : c.conf[1][i] >= KEYPT_MIN_CONF

\* C10: on a fresh stabilizer a first update with all 17 confidences >= 0.35
\* returns the input landmarks unchanged, and a second update with the same
\* landmarks and confidences returns the same output as the first, for every
\* joint and every coordinate value.
C10_FixedPoint ==
    (/\ Len(calls) >= 2
     /\ AllConfident(calls[1])
     /\ calls[2].kps = calls[1].kps
     /\ calls[2].conf = calls[1].conf)
    => /\ calls[1].ret = calls[1].kps
       /\ calls[2].ret = calls[1].ret

(* ------------------------ claims: the stabilizer ---------------------- *)

\* the n-th call returned a landmark array
Returned(n) == calls[n].ret # None

\* the last call before the n-th that returned a landmark array, 0 if none
LastReturned(n) ==
    LET S == {m \in 1..(n - 1) : Returned(m)}
    IN  IF S = {} THEN 0 ELSE CHOOSE m \in S : \A j \in S : j <= m

\* a landmark with a non-positive coordinate
InvalidPt(p) == p[1][1] <= 0 \/ p[2][1] <= 0

\* C11: a landmark whose confidence is below 0.35 on update k, and on the
\* updates after it up to update n, is output as the sentinel on each of the
\* updates k..n, whether update k is the first one or a later one.
C11_MaskedWhileLowConfidence ==
    \A i \in 1..NUM_KP : \A k \in 1..Len(calls) : \A n \in k..Len(calls) :
        (\A m \in k..n : Returned(m) => calls[m].conf[1][i] < KEYPT_MIN_CONF)
        => (\A m \in k..n : Returned(m) => calls[m].ret[1][i] = SentinelPt)

\* joint 1 below the floor on the first and on the second update, joint 2
\* on the floor and passed on
C11_Witness ==
    /\ Len(calls) = 2 /\ Returned(1) /\ Returned(2)
    /\ calls[1].conf[1][1] < KEYPT_MIN_CONF /\ calls[2].conf[1][1] < KEYPT_MIN_CONF
    /\ ~InvalidPt(calls[1].kps[1][1])
    /\ calls[2].ret[1][1] = SentinelPt
    /\ calls[2].ret[1][2] # SentinelPt

\* the arguments of the call are rejected by update: one is absent, the
\* landmark array is not 17 entries of 2 components, or there are fewer than
\* 17 confidences
Rejected(c) ==
    \/ c.kps = None
    \/ c.conf = None
    \/ shape(c.kps[1]) # <<NUM_KP, 2>>
    \/ Len(c.conf[1]) < NUM_KP

\* C12: update called with an absent argument, with a landmark array that is
\* not 17 two-component entries, or with fewer than 17 confidences returns
\* "no update", does not raise, and leaves the stored state as it was (unset
\* if it was unset).
C12_RejectedCallKeepsState ==
    [][Len(calls') = Len(calls) + 1 /\ Rejected(calls'[Len(calls')]) =>
        /\ calls'[Len(calls')].ret = None
        /\ ~calls'[Len(calls')].raised
        /\ stab' = stab]_vars

\* a stored state kept over a call with 17 landmarks of 3 components
C12_Witness ==
    /\ Len(calls) = 2 /\ Returned(1)
    /\ calls[2].kps # None /\ calls[2].conf # None
    /\ shape(calls[2].kps[1]) = <<NUM_KP, 3>>
    /\ calls[2].ret = None
    /\ stab = calls[1].ret

\* C13: update called with 17 landmarks and more than 17 confidences does
\* not raise and returns the 17-landmark array that the call with the first
\* 17 of the confidences returns.
C13_ExtraConfidencesAccepted ==
    \A n \in 1..Len(calls) :
        (/\ calls[n].kps # None /\ calls[n].conf # None
         /\ shape(calls[n].kps[1]) = <<NUM_KP, 2>>
         /\ Len(calls[n].conf[1]) > NUM_KP)
        => /\ ~calls[n].raised
           /\ calls[n].ret # None
           /\ Len(calls[n].ret[1]) = NUM_KP

\* C14: a joint that was invalid in the output of the previous update that
\* returned an array, and is valid now (confidence >= 0.35, positive
\* coordinates), is output as the current raw landmark.
C14_FastRecovery ==
    \A n \in 1..Len(calls) : \A i \in 1..NUM_KP :
        (/\ Returned(n) /\ LastReturned(n) # 0
         /\ InvalidPt(calls[LastReturned(n)].ret[1][i])
         /\ calls[n].conf[1][i] >= KEYPT_MIN_CONF
         /\ ~InvalidPt(calls[n].kps[1][i]))
        => calls[n].ret[1][i] = calls[n].kps[1][i]

\* joint 1 masked on the first update and back, at another place than joint
\* 1 was given before, on the second; joint 2 smoothed on the same update
C14_Witness ==
    /\ Len(calls) = 2 /\ Returned(1) /\ Returned(2)
    /\ calls[1].ret[1][1] = SentinelPt
    /\ calls[1].kps[1][1] = Pt(10, 10)
    /\ calls[2].ret[1][1] = Pt(30, 10)
    /\ calls[2].ret[1][2] # calls[2].kps[1][2]
    /\ calls[2].ret[1][2] # SentinelPt

\* the joint's current value is invalid on the call: low confidence or a
\* non-positive coordinate
InvalidNow(c, i) ==
    c.conf[1][i] < KEYPT_MIN_CONF \/ InvalidPt(c.kps[1][i])

\* C15 as stated: when a joint's current value is invalid on an update, the
\* output for the joint is the sentinel and the stored entry for the joint
\* after the call equals the stored entry before the call.
C15_InvalidKeepsStoredEntry ==
    [][Len(calls') = Len(calls) + 1 /\ calls'[Len(calls')].ret # None =>
        \A i \in 1..NUM_KP :
            InvalidNow(calls'[Len(calls')], i) =>
                /\ calls'[Len(calls')].ret[1][i] = SentinelPt
                /\ stab # None => stab'[1][i] = stab[1][i]]_vars

\* C15 amended: when a joint's current value is invalid on an update (its
\* confidence is below 0.35, or, on an update after the first, it has a
\* non-positive coordinate), the output for the joint is the sentinel and the
\* sentinel is written to the stored entry for the joint, whatever the entry
\* was before the call.
C15_InvalidWrittenThrough ==
    [][Len(calls') = Len(calls) + 1 /\ calls'[Len(calls')].ret # None =>
        \A i \in 1..NUM_KP :
            (\/ calls'[Len(calls')].conf[1][i] < KEYPT_MIN_CONF
             \/ (stab # None /\ InvalidPt(calls'[Len(calls')].kps[1][i])))
            => /\ calls'[Len(calls')].ret[1][i] = SentinelPt
               /\ stab'[1][i] = SentinelPt]_vars

\* joint 1 stored as a valid landmark by the first update and as the
\* sentinel by the second
C15_Witness ==
    /\ Len(calls) = 2 /\ Returned(1) /\ Returned(2)
    /\ calls[1].ret[1][1] = Pt(10, 10)
    /\ InvalidNow(calls[2], 1)
    /\ calls[2].ret[1][1] = SentinelPt
    /\ stab[1][1] = SentinelPt

\* a coordinate in units of 2^-16, rounded down
Units16(v) == ToUnits(v) \div 2^7

\* out is (1 - f) * prev + f * cur on one coordinate, f in hundredths, up to
\* the rounding of the float32 arithmetic and of Units16
IsBlend(out, prev, cur, f) ==
    LET d == 100 * Units16(out) - ((100 - f) * Units16(prev) + f * Units16(cur))
    IN  d <= 256 /\ -d <= 256

\* C16: a joint valid in the stored state and in the current frame is output
\* as (1 - f) * previous + f * current with f = 0.45 when the displacement
\* between previous and current is more than 6.0 px and f = 0.15 otherwise
\* (also at exactly 6.0 px), joint by joint.
C16_TwoSpeedSmoothing ==
    \A n \in 1..Len(calls) : \A i \in 1..NUM_KP :
        (/\ Returned(n) /\ LastReturned(n) # 0
         /\ ~InvalidPt(calls[LastReturned(n)].ret[1][i])
         /\ ~InvalidNow(calls[n], i))
        => LET prev == calls[LastReturned(n)].ret[1][i]
               cur == calls[n].kps[1][i]
               out == calls[n].ret[1][i]
               f == IF dist_gt(cur, prev, FAST_DIST) THEN alpha_fast ELSE alpha_slow
           IN  /\ IsBlend(out[1], prev[1], cur[1], f)
               /\ IsBlend(out[2], prev[2], cur[2], f)

\* joint 1 moved by exactly 6 px and smoothed with the slow factor
\* (10 + 0.15 * 6 = 10.9) while joint 2, moved by 4 px, is smoothed on its own
C16_Witness ==
    /\ Len(calls) = 2 /\ Returned(1) /\ Returned(2)
    /\ calls[1].ret[1][1] = Pt(10, 10)
    /\ calls[2].kps[1][1] = Pt(16, 10) /\ ~InvalidNow(calls[2], 1)
    /\ IsBlend(calls[2].ret[1][1][1], F32OfInt(10), F32OfInt(16), alpha_slow)
    /\ ~IsBlend(calls[2].ret[1][1][1], F32OfInt(10), F32OfInt(16), alpha_fast)
    /\ calls[1].ret[1][2] = Pt(20, 20) /\ calls[2].kps[1][2] = Pt(24, 20)
    /\ IsBlend(calls[2].ret[1][2][1], F32OfInt(20), F32OfInt(24), alpha_slow)

(* ----------------------- claims: the angle engine --------------------- *)

\* one of the three points is a sentinel (has a component <= 0), or one of
\* the vectors a - b, c - b has zero length
Degenerate(a, b, c) ==
    \/ \E p \in {a, b, c} : p[1] <= 0 \/ p[2] <= 0
    \/ a = b
    \/ c = b

\* r is what the claim allows for the angle at b: no value for a degenerate
\* triple, a value in [0, 180] otherwise
AngleAsClaimed(r, a, b, c) ==
    IF Degenerate(a, b, c) THEN r = None
    ELSE r # None /\ r[1] >= 0 /\ r[1] <= 180

\* C17: angle_3pt(a, b, c) is "no value" when a, b or c has a component <= 0
\* or a - b or c - b has zero length, and a value in [0, 180] degrees for
\* every other triple, without an exception; the knee angles (hip, knee,
\* ankle) and the hip angles (shoulder, hip, ankle) are such angles.
C17_AngleRangeOrNoValue ==
    (fn # None /\ fn.done) =>
        IF fn.op = "angle_3pt"
        THEN AngleAsClaimed(fn.ret, fn.args[1], fn.args[2], fn.args[3])
        ELSE IF fn.op = "knee_angles"
        THEN LET kp == fn.args[1]
             IN  /\ AngleAsClaimed(fn.ret[1], kp[KP_lhip], kp[KP_lknee], kp[KP_lank])
                 /\ AngleAsClaimed(fn.ret[2], kp[KP_rhip], kp[KP_rknee], kp[KP_rank])
        ELSE IF fn.op = "hip_angle_side"
        THEN LET kp == fn.args[1]
             IN  IF fn.args[2] = "l"
                 THEN AngleAsClaimed(fn.ret, kp[KP_lsh], kp[KP_lhip], kp[KP_lank])
                 ELSE AngleAsClaimed(fn.ret, kp[KP_rsh], kp[KP_rhip], kp[KP_rank])
        ELSE TRUE

\* two vectors of the same direction and of lengths that are not whole
\* numbers: the angle is 0, the quotient of the rounded lengths is clipped
C17_Witness ==
    /\ fn # None /\ fn.done /\ fn.op = "angle_3pt"
    /\ fn.args = <<(<<9, 9>>), (<<1, 1>>), (<<2, 2>>)>>
    /\ fn.ret = Some(0)

(* --------------------- claims: the quality scorers -------------------- *)

\* C18: the squat quality is a whole number in 0..100 for every pair of knee
\* angles; with both knees at the same angle it is 100 at 90 degrees and
\* below, 0 at 180 degrees, and does not grow as the angle grows from 90 to
\* 180.
C18_SquatQuality ==
    (/\ fn # None /\ fn.done /\ fn.op = "form_quality_squat"
     /\ fn.args[1].Lk # None /\ fn.args[1].Rk # None)
    => LET l == fn.args[1].Lk[1]
           r == fn.args[1].Rk[1]
       IN  /\ fn.ret # None
           /\ fn.ret[1] \in 0..100
           /\ (l = r /\ l <= 90) => fn.ret[1] = 100
           /\ (l = r /\ l = 180) => fn.ret[1] = 0
           /\ (l = r /\ l >= 90) =>
                \A a \in l..180 :
                    form_quality_squat(Knees(Some(a), Some(a)))[1] <= fn.ret[1]

\* both knees at 135 degrees, half way: quality 50
C18_Witness ==
    /\ fn # None /\ fn.done /\ fn.op = "form_quality_squat"
    /\ fn.args[1].Lk = Some(135) /\ fn.args[1].Rk = Some(135)
    /\ fn.ret = Some(50)

(* --------------------- claims: the subject selector ------------------- *)

\* a finished call of pick_best_person with a detection list of two
TwoCandidates ==
    /\ fn # None /\ fn.done /\ fn.op = "pick_best_person"
    /\ fn.args[1] # None /\ Len(fn.args[1][1]) = 2

\* box a overlaps the box p more than box b does: IoU(p, a) > IoU(p, b),
\* compared as exact fractions
MoreOverlap(p, a, b) ==
    inter_area(p, a) * union_area(p, b) > inter_area(p, b) * union_area(p, a)

SameBonus(a, b) ==
    bbox_center_bonus(a, FrameShape[2], FrameShape[1])
        = bbox_center_bonus(b, FrameShape[2], FrameShape[1])

\* C19 as stated: of two candidates of equal mean confidence the one with
\* the higher IoU against the previous box is selected, wherever the two
\* boxes lie in the frame.
C19_HigherIoUSelected ==
    (/\ TwoCandidates /\ fn.args[2] # None
     /\ nanmean(fn.args[1][1][1].kconf) = nanmean(fn.args[1][1][2].kconf))
    => LET prev == fn.args[2][1]
           a == fn.args[1][1][1].bb
           b == fn.args[1][1][2].bb
       IN  /\ MoreOverlap(prev, a, b) => fn.ret = Some(1)
           /\ MoreOverlap(prev, b, a) => fn.ret = Some(2)

\* C19 amended: of two candidates of equal mean confidence and equal center
\* bonus the one with the higher IoU against the previous box is selected.
C19_HigherIoUSelectedAtEqualBonus ==
    (/\ TwoCandidates /\ fn.args[2] # None
     /\ nanmean(fn.args[1][1][1].kconf) = nanmean(fn.args[1][1][2].kconf)
     /\ SameBonus(fn.args[1][1][1].bb, fn.args[1][1][2].bb))
    => LET prev == fn.args[2][1]
           a == fn.args[1][1][1].bb
           b == fn.args[1][1][2].bb
       IN  /\ MoreOverlap(prev, a, b) => fn.ret = Some(1)
           /\ MoreOverlap(prev, b, a) => fn.ret = Some(2)

\* two boxes as far from the centre, to its left and right, with the same
\* confidences; the previous box is the right one, listed second
C19_Witness ==
    /\ TwoCandidates
    /\ fn.args[2] = Some(<<7, 2, 11, 6>>)
    /\ fn.args[1][1][1] = [kconf |-> Array(NUM_KP, 60, 60), bb |-> <<5, 2, 9, 6>>]
    /\ fn.args[1][1][2] = [kconf |-> Array(NUM_KP, 60, 60), bb |-> <<7, 2, 11, 6>>]
    /\ fn.ret = Some(2)

\* C20: with no previous box, of two candidates with equal center bonus and
\* different mean confidence the one with the higher mean confidence is
\* selected, whichever comes first in the detection list.
C20_HigherConfidenceSelected ==
    (/\ TwoCandidates /\ fn.args[2] = None
     /\ SameBonus(fn.args[1][1][1].bb, fn.args[1][1][2].bb))
    => LET ca == nanmean(fn.args[1][1][1].kconf)
           cb == nanmean(fn.args[1][1][2].kconf)
       IN  /\ ca > cb => fn.ret = Some(1)
           /\ cb > ca => fn.ret = Some(2)

\* the more confident candidate is the second of the list
C20_Witness ==
    /\ TwoCandidates
    /\ fn.args[2] = None
    /\ fn.args[1][1][1] = [kconf |-> Array(NUM_KP, 60, 60), bb |-> <<5, 2, 9, 6>>]
    /\ fn.args[1][1][2] = [kconf |-> Array(NUM_KP, 90, 70), bb |-> <<7, 2, 11, 6>>]
    /\ fn.ret = Some(2)

\* C21: pick_best_person returns "none" when the detection list is absent
\* or empty, and otherwise the one candidate of the list whose score (mean
\* confidence + center bonus + 0.20 x IoU with the previous box) no other
\* candidate of the list exceeds.
C21_MaximumScoreOrNone ==
    (fn # None /\ fn.done /\ fn.op = "pick_best_person") =>
        IF fn.args[1] = None THEN fn.ret = None
        ELSE IF Len(fn.args[1][1]) = 0 THEN fn.ret = None
        ELSE LET cands == fn.args[1][1]
                 W == FrameShape[2]
                 H == FrameShape[1]
                 total(c) == nanmean(c.kconf) + bbox_center_bonus(c.bb, W, H)
                             + (20 * iou(fn.args[2], Some(c.bb))) \div 100
             IN  /\ fn.ret # None
                 /\ fn.ret[1] \in 1..Len(cands)
                 /\ \A j \in 1..Len(cands) : total(cands[fn.ret[1]]) >= total(cands[j])

\* the second of two detections chosen for its overlap with the previous
\* box, against a first one that is more confident
C21_Witness ==
    /\ TwoCandidates
    /\ fn.args[2] # None
    /\ nanmean(fn.args[1][1][1].kconf) > nanmean(fn.args[1][1][2].kconf)
    /\ iou(fn.args[2], Some(fn.args[1][1][2].bb)) > iou(fn.args[2], Some(fn.args[1][1][1].bb))
    /\ fn.ret = Some(2)

(* ------------------- claims: the leg-raise conditions ----------------- *)

\* the leg-raise conditions as the claim words them: some available hip
\* angle below 120, every available hip angle above 165
SomeAvailableBelow(k, deg) == \E a \in {k.Lh, k.Rh} : a # None /\ a[1] < deg
EveryAvailableAbove(k, deg) == \A a \in {k.Lh, k.Rh} : a # None => a[1] > deg

\* the frame took the machine a step towards the other phase: dwell counted
\* up, or the phase changed
Advanced == rc'.state # rc.state \/ rc'.dwell = rc.dwell + 1

\* C22: on a leg-raise frame with a hip angle, the machine in phase "down"
\* advances exactly when some available hip angle is < 120, and in phase
\* "up" exactly when every available hip angle is > 165; a side without an
\* angle takes no part, so one lowered leg with the other side unmeasured
\* reads as "down".
C22_LegRaiseConditions ==
    [][(/\ FrameStep /\ rc.exercise = "leg_raise"
        /\ HasMeasurement(rc.exercise, kps'))
       => /\ rc.state = "down" => (Advanced <=> SomeAvailableBelow(kps', 120))
          /\ rc.state = "up" => (Advanced <=> EveryAvailableAbove(kps', 165))]_vars

\* in phase "up", the left leg lowered and the right side unmeasured: the
\* second frame of dwell
C22_Witness ==
    /\ pc = "key" /\ rc.exercise = "leg_raise"
    /\ kps.pose /\ kps.Lh = Some(170) /\ kps.Rh = None
    /\ prevState = "up" /\ rc.state = "up" /\ rc.dwell = 2

(* ---------------- claims: response, dead band, reset ------------------ *)

\* C24: from a phase with dwell 0, three consecutive frames with a valid
\* measurement that all satisfy the condition for leaving the phase switch
\* it: after the third the phase is the other one, dwell is 0, and the rep
\* count is one more than before the three frames when the switch is in the
\* counting direction and the same otherwise.
C24_SwitchOnThirdFrame ==
    lead.n = 3 =>
        LET to == OtherPhase(rc.exercise, lead.from)
        IN  /\ rc.state = to
            /\ rc.dwell = 0
            /\ rc.reps = lead.reps + (IF to = CountTo(rc.exercise) THEN 1 ELSE 0)

\* leg raise: three frames with the leg down, met in phase "up" with dwell 0
\* and 1 rep, have just counted the second rep
C24_Witness ==
    /\ pc = "key" /\ rc.exercise = "leg_raise"
    /\ lead = [from |-> "up", reps |-> 1, n |-> 3]
    /\ validWin = <<"down", "down", "down">>
    /\ HasMeasurement(rc.exercise, kps)
    /\ rc.state = "down" /\ rc.reps = 2

\* C25: a frame with a valid measurement that satisfies neither phase's
\* condition, or only the condition of the phase the machine is in, changes
\* neither the phase nor the rep count and leaves dwell 0.
C25_DeadBand ==
    [][(/\ FrameStep /\ rc.state # ""
        /\ HasMeasurement(rc.exercise, kps')
        /\ Held(rc.exercise, kps') \in {"-", rc.state})
       => /\ rc'.state = rc.state
          /\ rc'.reps = rc.reps
          /\ rc'.dwell = 0]_vars

\* sit-to-stand in phase "sit": two frames with both knees > 165, then a
\* frame in the dead band that clears the dwell they had built up
C25_Witness ==
    /\ pc = "key" /\ rc.exercise = "sts"
    /\ validWin = <<"stand", "stand", "-">>
    /\ HasMeasurement(rc.exercise, kps)
    /\ prevState = "sit" /\ rc.state = "sit" /\ rc.dwell = 0
    /\ lead.n = 0

\* the keys whose handler calls rc.reset
ResetKeys == {"r", "1", "2", "3"}

\* C29: a reset or exercise switch is never mixed into a frame's update: a
\* frame is processed whole under the exercise and counter it started with,
\* with no key handled in it; the key's reset then replaces the counter as a
\* whole, and the next frame starts from the fully reset counter of the
\* chosen exercise.
C29_ResetBetweenFrames ==
    [][/\ FrameStep =>
            /\ key' = ""
            /\ rc'.exercise = rc.exercise
            /\ rc' \in {rc, EXER_REG(rc.exercise, kps', rc)}
       /\ (KeyStep /\ key' \in ResetKeys) =>
            /\ kps' = kps
            /\ pc' = "frame"
            /\ rc' = RepCounter(IF key' = "r" THEN rc.exercise
                                ELSE KeyExercise(key')[1])
       /\ (KeyStep /\ key' \notin ResetKeys) => rc' = rc
       /\ rc' # rc => FrameStep \/ KeyStep]_vars

\* a squat frame with both knees at 100 was counted as dwell under squat;
\* key 3 then left a fresh leg-raise counter for the next frame
C29_Witness ==
    /\ pc = "frame" /\ key = "3"
    /\ kps.pose /\ kps.Lk = Some(100) /\ kps.Rk = Some(100)
    /\ rc = RepCounter("leg_raise")

(* ------------------ claims: stored state and output ------------------- *)

\* C30: after every update that returns an array the stored state equals
\* the returned array in every entry, the sentinel entries included.
C30_StoredEqualsReturned ==
    [][(/\ Len(calls') = Len(calls) + 1
        /\ calls'[Len(calls')].ret # None)
       => /\ stab' # None
          /\ Len(stab'[1]) = NUM_KP
          /\ \A i \in 1..NUM_KP : stab'[1][i] = calls'[Len(calls')].ret[1][i]]_vars

\* a second update whose output has smoothed entries (other than both the
\* stored value and the frame's) and sentinel entries
C30_Witness ==
    /\ Len(calls) = 2 /\ Returned(1) /\ Returned(2)
    /\ stab = calls[2].ret
    /\ \E i \in 1..NUM_KP :
        /\ stab[1][i] # SentinelPt
        /\ stab[1][i] # calls[1].ret[1][i]
        /\ stab[1][i] # calls[2].kps[1][i]
    /\ \E i \in 1..NUM_KP : stab[1][i] = SentinelPt

(* -------------------------- detector pipeline ------------------------- *)

\* Frames the detector pipeline takes in one run.
MaxFrames == 4

\* prev_bb that forgets the box on a frame without a subject
next_prev_bb_cleared(bbox, prev) == bbox

\* "prev_bb = bbox if bbox is not None else prev_bb"
next_prev_bb(bbox, prev) == IF bbox # None THEN bbox ELSE prev

\* the candidate pick_best_person returns, "none" when it returns none
selected(res, prev) ==
    LET i == pick_best_person(res, FrameShape[2], FrameShape[1], prev)
    IN  IF i = None THEN None ELSE Some(res[1][i[1]])

\* stabilize that drops the stored landmarks on a frame without a subject
stabilize_clears_on_none(st, sel) ==
    IF sel # None THEN update(st, Some(sel[1].kxy), Some(sel[1].kconf))
    ELSE [state |-> None, ret |-> None, raised |-> FALSE]

\* "kps = stab.update(kxy, kconf) if (kxy is not None and kconf is not None)
\* else None"
stabilize(st, sel) ==
    IF sel # None THEN update(st, Some(sel[1].kxy), Some(sel[1].kconf))
    ELSE [state |-> st, ret |-> None, raised |-> FALSE]

\* The stabilizer's float32 landmarks as points of the angle engine.  The
\* landmarks of the pipeline below are whole pixels (WholePixels), so that
\* the division is exact.
whole_px(kp) ==
    [i \in 1..Len(kp) |-> <<ToUnits(kp[i][1]) \div 2^23, ToUnits(kp[i][2]) \div 2^23>>]

\* the four angles the logic functions read from the landmark array
measure(kp) ==
    LET px == whole_px(kp)
        ka == knee_angles_kps(px)
    IN  [Lk |-> ka[1], Rk |-> ka[2],
         Lh |-> hip_angle_side_kps(px, "l"), Rh |-> hip_angle_side_kps(px, "r"),
         pose |-> TRUE]

\* "if kps is not None and kps.shape == (17,2)": the frame's measurements
measured(ret) ==
    IF ret # None /\ shape(ret[1]) = <<NUM_KP, 2>> THEN measure(ret[1]) ELSE NoPose

\* A body standing at x = 4: shoulders (4,1), hips (4,2), knees (4,4), the
\* face and arms at (2,1), and both ankles at ank.  All coordinates are
\* powers of two, which the float32 blend of a value with itself returns
\* unchanged.
Body(ank) ==
    [i \in 1..NUM_KP |->
        IF i \in {KP_lsh, KP_rsh} THEN Pt(4, 1)
        ELSE IF i \in {KP_lhip, KP_rhip} THEN Pt(4, 2)
        ELSE IF i \in {KP_lknee, KP_rknee} THEN Pt(4, 4)
        ELSE IF i \in {KP_lank, KP_rank} THEN ank
        ELSE Pt(2, 1)]

\* legs straight: knee and hip angles 180; knees bent: knee angle 90, hip
\* angle (shoulder, hip, ankle) 116
Straight == Body(Pt(4, 8))
Bent == Body(Pt(8, 4))

LegKP == {KP_lhip, KP_rhip, KP_lknee, KP_rknee, KP_lank, KP_rank}

\* confidences 0.85 everywhere but on the landmarks of low, which have 0.34
ConfLow(n, low) == [i \in 1..n |-> IF i \in low THEN 34 ELSE 85]

\* all landmarks confident; both ankles, the right hip alone, the nose
\* alone below the floor; and an array of 18 confidences
PipeConfs ==
    {ConfLow(NUM_KP, {}), ConfLow(NUM_KP, {KP_lank, KP_rank}),
     ConfLow(NUM_KP, {KP_rhip}), ConfLow(NUM_KP, {1}), ConfLow(NUM_KP + 1, {})}

\* detection lists: absent, empty, one person, and two confident persons as
\* far from the centre as each other, in both orders
Detections ==
    LET A == [kxy |-> Straight, kconf |-> ConfLow(NUM_KP, {}), bb |-> <<5, 2, 9, 6>>]
        B == [kxy |-> Bent, kconf |-> ConfLow(NUM_KP, {}), bb |-> <<7, 2, 11, 6>>]
    IN  {None, Some(<<>>), Some(<<A, B>>), Some(<<B, A>>)}
        \cup {Some(<<[kxy |-> p, kconf |-> c, bb |-> <<6, 2, 10, 6>>]>>) :
                  p \in {Straight, Bent}, c \in PipeConfs}

\* Between two frames a landmark of the chosen person is where the
\* stabilizer has it, unless it is or was hidden (masked now, or stored as
\* the sentinel): a person holds a pose, and moves into another one while
\* the moving landmarks are hidden.
Settled(st, sel) ==
    IF sel = None \/ st = None THEN TRUE
    ELSE IF Len(sel[1].kconf) # NUM_KP THEN TRUE
    ELSE \A i \in 1..NUM_KP :
            LET cur == mask(sel[1].kxy, sel[1].kconf)[i]
            IN  cur = SentinelPt \/ st[1][i] = SentinelPt \/ st[1][i] = cur

\* Every stored landmark is a whole number of pixels.
WholePixels ==
    stab # None =>
        \A i \in 1..NUM_KP : \A j \in 1..2 : ToUnits(stab[1][i][j]) % 2^23 = 0

\* One iteration of main's loop from the detector's result on: selection,
\* prev_bb, the stabilizer, and the active exercise's logic.  An exception of
\* stab.update is raised outside the try block and leaves the loop.
PipeFrame ==
    /\ pc = "frame"
    /\ frames < MaxFrames
    /\ \E res \in Detections :
        \E sel \in {selected(res, prevbb)} :
        \E r \in {stabilize(stab, sel)} :
            LET bbox == IF sel = None THEN None ELSE Some(sel[1].bb)
                ex == rc.exercise
                k == measured(r.ret)
                d == DipNext(dip, rc, k)
            IN  /\ Settled(stab, sel)
                /\ prevbb' = next_prev_bb(bbox, prevbb)
                /\ frames' = frames + 1
                /\ last' = [picked |-> pick_best_person(res, FrameShape[2],
                                                        FrameShape[1], prevbb),
                            conf |-> IF sel = None THEN None ELSE Some(sel[1].kconf),
                            chosen |-> bbox, raised |-> r.raised]
                /\ lastBox' = IF bbox # None THEN bbox ELSE lastBox
                /\ stab' = r.state
                /\ IF r.raised
                   THEN /\ pc' = "crashed"
                        /\ UNCHANGED <<rc, kps, key, prevState, fresh, pat, dip,
                                       dipReps, streamWin, validWin, lead, tally>>
                   ELSE /\ rc' = IF k.pose THEN EXER_REG(ex, k, rc) ELSE rc
                        /\ kps' = k
                        /\ fresh' = (fresh /\ ~HasMeasurement(ex, k))
                        /\ pat' = PatNext(pat, ex, k)
                        /\ dip' = d
                        /\ dipReps' = IF d = "none" THEN 0
                                      ELSE IF d = "d1" /\ dip # "d1" THEN rc.reps
                                      ELSE dipReps
                        /\ streamWin' = Shift(streamWin, Held(ex, k))
                        /\ validWin' = IF HasMeasurement(ex, k)
                                       THEN Shift(validWin, Held(ex, k)) ELSE validWin
                        /\ lead' = LeadNext(lead, rc, k)
                        /\ tally' = TallyNext(tally, rc, k)
                        /\ prevState' = rc.state
                        /\ pc' = "key"
                        /\ key' = ""
    /\ UNCHANGED <<calls, fn>>

NextPipe == PipeFrame \/ EndOfStream \/ Key

SpecPipe == Init /\ [][NextPipe]_vars

(* --------------------- claims: the detector pipeline ------------------ *)

\* a step that is one frame of the pipeline
PipeStep == frames' = frames + 1

\* C23 as stated: a fault raised in a per-frame step (selection, stabilizer
\* update, exercise logic) results in "no update this frame" and the loop
\* goes on to the rest of the iteration and the next frame: the session does
\* not end, and the stabilizer and the counter are as before the frame.
C23_FaultIsolated ==
    [][(PipeStep /\ last'.raised)
       => /\ pc' = "key"
          /\ stab' = stab
          /\ rc' = rc]_vars

\* C26: on a frame where at least one of the six leg landmarks (hips, knees,
\* ankles) of the chosen person has confidence < 0.35, the squat and
\* sit-to-stand counters are unchanged in every field, whatever the other
\* landmarks are.
C26_HiddenLegLandmarkSkipsFrame ==
    [][(/\ PipeStep
        /\ rc.exercise \in {"squat", "sts"}
        /\ last'.conf # None
        /\ \E i \in LegKP : last'.conf[1][i] < KEYPT_MIN_CONF)
       => rc' = rc]_vars

\* squat in phase "up" with one frame of dwell from a bent-knee frame; then
\* a bent-knee frame on which only the right hip is below the floor: the
\* left knee angle is measured, the right one is not, dwell is still 1
C26_Witness ==
    /\ pc = "key" /\ rc.exercise = "squat"
    /\ last.conf = Some(ConfLow(NUM_KP, {KP_rhip}))
    /\ kps.pose /\ kps.Lk = Some(90) /\ kps.Rk = None
    /\ rc.state = "up" /\ rc.dwell = 1

\* C27: a frame on which the selector returns "none" leaves the
\* stabilizer's stored state and the counter's exercise, rep count, phase,
\* dwell and form percentage as they were before the frame.
C27_NoSubjectNoChange ==
    [][(PipeStep /\ last'.picked = None)
       => /\ stab' = stab
          /\ rc' = rc]_vars

\* a frame without a subject after frames that stored landmarks and built
\* up one frame of dwell
C27_Witness ==
    /\ pc = "key"
    /\ last.picked = None
    /\ stab # None
    /\ rc.state = "up" /\ rc.dwell = 1 /\ rc.form_pct > 0

\* C28 as stated: the previous box given to the selector on frame n is the
\* box chosen on frame n-1, and "none" when no subject was chosen on frame
\* n-1 or there was no frame n-1.
C28_PreviousFramesBox == pc = "frame" => prevbb = last.chosen

\* C28 amended: the previous box given to the selector on frame n is the
\* box chosen on the latest frame before n on which a subject was chosen,
\* and "none" when no subject was chosen on any frame before n.
C28_LatestChosenBox == pc = "frame" => prevbb = lastBox

\* before the third frame: a subject was chosen on the first frame and none
\* on the second, and the selector is about to be given the first frame's box
C28_Witness ==
    /\ pc = "frame" /\ frames = 2
    /\ last.picked = None /\ last.chosen = None
    /\ prevbb = Some(<<7, 2, 11, 6>>)

(* ------------------- claims: the other two scorers -------------------- *)

\* 100 x the sum of the scores, each given over the denominator d, is
\* within d / 2 x (number of scores) of q x d x (number of scores): q is a
\* whole number nearest to 100 x the mean score
NearestPercent(q, sum, n, d) ==
    LET diff == q * n * d - 100 * sum
    IN  2 * diff <= n * d /\ -2 * diff <= n * d

\* C31: the sit-to-stand quality is round(100 x mean of the two knee scores
\* clamp01((angle - 120) / 60)): a whole number nearest to it; it is 100 with
\* both knees at 180, 0 with both knees at or below 120, does not fall when
\* either knee angle grows, and there is no value unless both knee angles are
\* present.
C31_StsQuality ==
    (fn # None /\ fn.done /\ fn.op = "form_quality_sts") =>
        LET l == fn.args[1].Lk
            r == fn.args[1].Rk
            ext(a) == Max(0, Min(60, a - 120))
        IN  IF l = None \/ r = None THEN fn.ret = None
            ELSE /\ fn.ret # None
                 /\ fn.ret[1] \in 0..100
                 /\ NearestPercent(fn.ret[1], ext(l[1]) + ext(r[1]), 2, 60)
                 /\ (l[1] = 180 /\ r[1] = 180) => fn.ret[1] = 100
                 /\ (l[1] <= 120 /\ r[1] <= 120) => fn.ret[1] = 0
                 /\ l[1] < 180 =>
                        form_quality_sts(Knees(Some(l[1] + 1), r))[1] >= fn.ret[1]
                 /\ r[1] < 180 =>
                        form_quality_sts(Knees(l, Some(r[1] + 1)))[1] >= fn.ret[1]

\* knees at 121 and 170: scores 1/60 and 50/60, mean 0.425; the double that
\* is rounded lies just above 42.5, and the quality is 43
C31_Witness ==
    /\ fn # None /\ fn.done /\ fn.op = "form_quality_sts"
    /\ fn.args[1].Lk = Some(121) /\ fn.args[1].Rk = Some(170)
    /\ fn.ret = Some(43)

\* C32: the leg-raise quality is round(100 x mean of clamp01((180 - angle)
\* / 90)) over the hip angles that are available; with one side available
\* it is that side's score alone, whichever side it is; and there is no value
\* exactly when both sides are absent.
C32_LegRaiseQuality ==
    (fn # None /\ fn.done /\ fn.op = "form_quality_legraise") =>
        LET l == fn.args[1].Lh
            r == fn.args[1].Rh
            sc(a) == Max(0, Min(90, 180 - a))
        IN  IF l = None /\ r = None THEN fn.ret = None
            ELSE /\ fn.ret # None
                 /\ fn.ret[1] \in 0..100
                 /\ (l # None /\ r # None) =>
                        NearestPercent(fn.ret[1], sc(l[1]) + sc(r[1]), 2, 90)
                 /\ (l # None /\ r = None) =>
                        NearestPercent(fn.ret[1], sc(l[1]), 1, 90)
                 /\ (l = None /\ r # None) =>
                        NearestPercent(fn.ret[1], sc(r[1]), 1, 90)

\* only the right hip angle is available, 135 degrees: the quality is its
\* score alone, 50
C32_Witness ==
    /\ fn # None /\ fn.done /\ fn.op = "form_quality_legraise"
    /\ fn.args[1].Lh = None /\ fn.args[1].Rh = Some(135)
    /\ fn.ret = Some(50)

(* ------------------- claims: invariants of the counter ---------------- *)

\* C33: between frames the dwell counter is 0, 1 or 2, never the dwell
\* threshold 3 or more, and it is 0 whenever the phase is unset.
C33_DwellBelowThreshold ==
    /\ rc.dwell \in {0, 1, 2}
    /\ rc.state = "" => rc.dwell = 0

\* sit-to-stand in phase "stand" after two frames with both knees < 120
C33_Witness ==
    /\ pc = "key" /\ rc.exercise = "sts"
    /\ rc.state = "stand" /\ rc.dwell = 2
    /\ validWin[2] = "sit" /\ validWin[3] = "sit"

\* the two phases of an exercise, as the claim lists them
PhasesOf(ex) ==
    IF ex = "squat" THEN {"up", "down"}
    ELSE IF ex = "sts" THEN {"sit", "stand"}
    ELSE IF ex = "leg_raise" THEN {"down", "up"}
    ELSE {}

\* C34: the exercise is one of the three registered ones, and the phase is
\* unset or one of the two phases of the exercise that is selected, after
\* any frames, resets and switches.
C34_PhaseOfSelectedExercise ==
    /\ rc.exercise \in {"squat", "sts", "leg_raise"}
    /\ rc.state \in {""} \cup PhasesOf(rc.exercise)

\* after a switch from squat (the only way to sit-to-stand), a rep counted
\* and the phase "stand"
C34_Witness ==
    /\ pc = "key" /\ rc.exercise = "sts"
    /\ rc.state = "stand" /\ rc.reps = 1 /\ prevState = "sit"

\* C35: the stored form percentage is a whole number in 0..100 in every
\* state, for every exercise and every sequence of frames and resets.
C35_FormPercentInRange == rc.form_pct \in 0..100

\* leg raise, both hip angles 100: the stored percentage is 89
C35_Witness ==
    /\ pc = "key" /\ rc.exercise = "leg_raise"
    /\ kps.Lh = Some(100) /\ kps.Rh = Some(100)
    /\ rc.form_pct = 89

(* --------------------- claims: what precedes a rep -------------------- *)

\* a frame that counts a rep
RepStep == FrameStep /\ rc'.reps = rc.reps + 1

\* C36: two rep increments with no reset between them are at least 6 frames
\* with a valid measurement apart.
C36_SixFramesBetweenReps ==
    [][(RepStep /\ tally.since # None)
       => TallyAt(tally, rc.exercise, kps').since[1] >= 6]_vars

\* sit-to-stand: the second rep has just been counted
C36_Witness ==
    /\ pc = "key" /\ rc.exercise = "sts"
    /\ rc.reps = 2 /\ prevState = "sit" /\ rc.state = "stand"
    /\ tally.since = Some(0)

\* C37: in squat and leg raise a rep increment is preceded, since the
\* previous increment or creation or reset, by 3 frames with a valid
\* measurement in a row that satisfy the squat "down" (leg-raise "up")
\* condition and, after them, by 3 such frames in a row, this one included,
\* that satisfy the "up" (leg-raise "down") condition.
C37_RepAfterExcursion ==
    [][(RepStep /\ rc.exercise \in {"squat", "leg_raise"})
       => LET at == TallyAt(tally, rc.exercise, kps')
          IN  at.out /\ at.back = 3]_vars

\* leg raise: the first rep, counted on the third frame with the legs down
C37_Witness ==
    /\ pc = "key" /\ rc.exercise = "leg_raise"
    /\ rc.reps = 1 /\ prevState = "up" /\ rc.state = "down"
    /\ validWin = <<"down", "down", "down">>
    /\ tally = [NoTally EXCEPT !.since = Some(0)]

\* C38 as stated: in sit-to-stand a rep increment, the first one after
\* creation or reset included, is preceded since the previous increment or
\* creation or reset by at least 3 frames with a valid measurement on which
\* both knees were < 120.
C38_RepAfterSitting ==
    [][(RepStep /\ rc.exercise = "sts")
       => TallyAt(tally, rc.exercise, kps').seen >= 3]_vars

\* the entry of joint i stored before the n-th call and the masked input of
\* the call are both valid
Smoothed(n, i) ==
    /\ Returned(n) /\ LastReturned(n) # 0
    /\ ~InvalidPt(calls[LastReturned(n)].ret[1][i])
    /\ ~InvalidNow(calls[n], i)

\* on every call that returned, the output of a joint is invalid exactly
\* when its masked input is
ValidityPreserved ==
    \A n \in 1..Len(calls) : \A i \in 1..NUM_KP :
        Returned(n) => (InvalidPt(calls[n].ret[1][i]) <=> InvalidNow(calls[n], i))

\* out is at least the smaller and at most the larger of prev and cur, with
\* a margin of slack / 2^22 of the bound on either side
Between(out, prev, cur, slack) ==
    LET lo == Min(ToUnits(prev), ToUnits(cur))
        hi == Max(ToUnits(prev), ToUnits(cur))
    IN  /\ lo - slack * (lo \div 2^22) <= ToUnits(out)
        /\ ToUnits(out) <= hi + slack * (hi \div 2^22)

====
